---- MODULE Spec2Model ----
(***************************************************************************)
(* Model of the hackathon-todo repository: the FastAPI task service (REST   *)
(* endpoints and the natural-language chat endpoint over the persistent     *)
(* task store), the offline CLI over the in-memory repository, and the      *)
(* rule-based intent parser of the chat agent.                              *)
(*                                                                          *)
(* Text is modelled as a sequence of one-character strings, so that         *)
(* lower-casing, trimming, title-casing and the regular expressions of the  *)
(* parser are computed character by character as Python computes them.      *)
(***************************************************************************)
EXTENDS Integers, Sequences, FiniteSets, TLC

(***************************************************************************)
(* Characters and the Python string operations the code applies to them.    *)
(***************************************************************************)
LowerLetters == <<"a", "b", "c", "d", "e", "f", "g", "h", "i", "j", "k", "l", "m",
                  "n", "o", "p", "q", "r", "s", "t", "u", "v", "w", "x", "y", "z">>

UpperLetters == <<"A", "B", "C", "D", "E", "F", "G", "H", "I", "J", "K", "L", "M",
                  "N", "O", "P", "Q", "R", "S", "T", "U", "V", "W", "X", "Y", "Z">>

Digits == <<"0", "1", "2", "3", "4", "5", "6", "7", "8", "9">>

Range(f) == {f[i] : i \in DOMAIN f}

\* the string of n characters c
RECURSIVE Repeat(_, _)
Repeat(c, n) ==
    IF n = 0 THEN <<>>
    ELSE IF n % 2 = 0 THEN LET half == Repeat(c, n \div 2) IN half \o half
    ELSE Append(Repeat(c, n - 1), c)

Min(S) == CHOOSE x \in S : \A y \in S : x <= y

Max(S) == CHOOSE x \in S : \A y \in S : x >= y

IndexIn(f, c) == CHOOSE i \in DOMAIN f : f[i] = c

IsLower(c) == c \in Range(LowerLetters)

IsUpper(c) == c \in Range(UpperLetters)

IsLetter(c) == IsLower(c) \/ IsUpper(c)

\* \s of the re module and the characters str.strip() removes
IsSpace(c) == c \in {" ", "\t", "\n"}

\* \d of the re module
IsDigit(c) == c \in Range(Digits)

\* \w of the re module
IsWordChar(c) == IsLetter(c) \/ IsDigit(c) \/ c = "_"

\* . of the re module (no DOTALL flag): anything but a newline
IsDot(c) == c # "\n"

ToLower(c) == IF IsUpper(c) THEN LowerLetters[IndexIn(UpperLetters, c)] ELSE c

ToUpper(c) == IF IsLower(c) THEN UpperLetters[IndexIn(LowerLetters, c)] ELSE c

\* the string whose i-th character is F applied to position i of s
MapIndexed(s, F(_)) == SubSeq([i \in 1..Len(s) |-> F(i)], 1, Len(s))

\* str.lower()
Lower(s) == LET F(i) == ToLower(s[i]) IN MapIndexed(s, F)

\* str.strip()
Strip(s) ==
    IF \A i \in 1..Len(s) : IsSpace(s[i]) THEN <<>>
    ELSE LET first == CHOOSE i \in 1..Len(s) :
                          ~IsSpace(s[i]) /\ \A k \in 1..(i - 1) : IsSpace(s[k])
             last_ == CHOOSE i \in 1..Len(s) :
                          ~IsSpace(s[i]) /\ \A k \in (i + 1)..Len(s) : IsSpace(s[k])
         IN  SubSeq(s, first, last_)

\* str.capitalize(): the first character in upper case, the rest in lower case
Capitalize(s) ==
    LET F(i) == IF i = 1 THEN ToUpper(s[i]) ELSE ToLower(s[i])
    IN  MapIndexed(s, F)

\* str.title(): a letter is upper-cased when the character before it is not a
\* letter, and lower-cased otherwise
TitleCase(s) ==
    LET F(i) == IF ~IsLetter(s[i]) THEN s[i]
                ELSE IF i > 1 /\ IsLetter(s[i - 1]) THEN ToLower(s[i]) ELSE ToUpper(s[i])
    IN  MapIndexed(s, F)

\* int() of a string of decimal digits
RECURSIVE ToInt(_)
ToInt(ds) ==
    IF ds = <<>> THEN 0
    ELSE 10 * ToInt(SubSeq(ds, 1, Len(ds) - 1)) + (IndexIn(Digits, ds[Len(ds)]) - 1)

\* str() of a non-negative integer
RECURSIVE ToDigits(_)
ToDigits(n) ==
    IF n < 10 THEN <<Digits[n + 1]>>
    ELSE ToDigits(n \div 10) \o <<Digits[(n % 10) + 1]>>

\* the Python test `w in s` on strings
Contains(s, w) ==
    \E i \in 1..(Len(s) - Len(w) + 1) : \A k \in 1..Len(w) : s[i + k - 1] = w[k]

(***************************************************************************)
(* The literals of the parser's patterns and keyword lists, by name.        *)
(***************************************************************************)
W ==
    [add |-> <<"a", "d", "d">>,
     create |-> <<"c", "r", "e", "a", "t", "e">>,
     new |-> <<"n", "e", "w">>,
     task |-> <<"t", "a", "s", "k">>,
     to |-> <<"t", "o">>,
     i |-> <<"i">>,
     need |-> <<"n", "e", "e", "d">>,
     want |-> <<"w", "a", "n", "t">>,
     reminde |-> <<"r", "e", "m", "i", "n", "d", "e">>,
     r |-> <<"r">>,
     kal |-> <<"k", "a", "l">>,
     aaj |-> <<"a", "a", "j">>,
     parso |-> <<"p", "a", "r", "s", "o">>,
     hai |-> <<"h", "a", "i">>,
     karna |-> <<"k", "a", "r", "n", "a">>,
     lena |-> <<"l", "e", "n", "a">>,
     tomorrow |-> <<"t", "o", "m", "o", "r", "r", "o", "w">>,
     today |-> <<"t", "o", "d", "a", "y">>,
     next |-> <<"n", "e", "x", "t">>,
     show |-> <<"s", "h", "o", "w">>,
     list |-> <<"l", "i", "s", "t">>,
     get |-> <<"g", "e", "t">>,
     view |-> <<"v", "i", "e", "w">>,
     my |-> <<"m", "y">>,
     tasks |-> <<"t", "a", "s", "k", "s">>,
     todos |-> <<"t", "o", "d", "o", "s">>,
     what |-> <<"w", "h", "a", "t">>,
     are |-> <<"a", "r", "e">>,
     pending |-> <<"p", "e", "n", "d", "i", "n", "g">>,
     active |-> <<"a", "c", "t", "i", "v", "e">>,
     completed |-> <<"c", "o", "m", "p", "l", "e", "t", "e", "d">>,
     mere |-> <<"m", "e", "r", "e">>,
     kaam |-> <<"k", "a", "a", "m">>,
     summarize |-> <<"s", "u", "m", "m", "a", "r", "i", "z", "e">>,
     summary |-> <<"s", "u", "m", "m", "a", "r", "y">>,
     overview |-> <<"o", "v", "e", "r", "v", "i", "e", "w">>,
     kitne_tasks |-> <<"k", "i", "t", "n", "e", " ", "t", "a", "s", "k", "s">>,
     mark |-> <<"m", "a", "r", "k">>,
     complete |-> <<"c", "o", "m", "p", "l", "e", "t", "e">>,
     finish |-> <<"f", "i", "n", "i", "s", "h">>,
     done |-> <<"d", "o", "n", "e">>,
     id |-> <<"i", "d">>,
     khatam |-> <<"k", "h", "a", "t", "a", "m">>,
     delete |-> <<"d", "e", "l", "e", "t", "e">>,
     remove |-> <<"r", "e", "m", "o", "v", "e">>,
     cancel |-> <<"c", "a", "n", "c", "e", "l">>,
     hata |-> <<"h", "a", "t", "a">>,
     update |-> <<"u", "p", "d", "a", "t", "e">>,
     change |-> <<"c", "h", "a", "n", "g", "e">>,
     edit |-> <<"e", "d", "i", "t">>,
     help |-> <<"h", "e", "l", "p">>,
     kya_kar_sakte |-> <<"k", "y", "a", " ", "k", "a", "r", " ", "s", "a", "k", "t", "e">>,
     commands |-> <<"c", "o", "m", "m", "a", "n", "d", "s">>,
     yes |-> <<"y", "e", "s">>,
     confirm |-> <<"c", "o", "n", "f", "i", "r", "m">>,
     mera |-> <<"m", "e", "r", "a">>]

\* the default description of a task created by chat, and the separator
\* before its date hint
s_created_via_ai_chat == <<"C", "r", "e", "a", "t", "e", "d", " ", "v", "i", "a", " ", "A", "I", " ", "c", "h", "a", "t">>

s_dash == <<" ", "-", " ">>

(***************************************************************************)
(* Regular-expression matching as re.search performs it: the leftmost start *)
(* position at which the pattern matches, greedy quantifiers, alternatives  *)
(* in the order written.  The subject is always message.lower().strip(), so *)
(* it neither starts nor ends with a whitespace character.                  *)
(***************************************************************************)
NoMatch == [found |-> FALSE, groups |-> <<>>]

Matched(gs) == [found |-> TRUE, groups |-> gs]

\* the literal w occurs in s at position i
OccursAt(s, i, w) ==
    /\ i >= 1
    /\ i + Len(w) - 1 <= Len(s)
    /\ \A k \in 1..Len(w) : s[i + k - 1] = w[k]

SpaceAt(s, i) == i >= 1 /\ i <= Len(s) /\ IsSpace(s[i])

DigitAt(s, i) == i >= 1 /\ i <= Len(s) /\ IsDigit(s[i])

\* last position of the longest run of characters of class P starting at i
\* (i - 1 when s[i] is not in the class): a greedy P+ or P*
RunEnd(s, i, P(_)) ==
    LET stop == {k \in i..Len(s) : ~P(s[k])}
    IN  IF stop = {} THEN Len(s) ELSE Min(stop) - 1

\* position after a greedy \s* starting at i
SkipSpaces(s, i) == RunEnd(s, i, IsSpace) + 1

\* last position a greedy .+ starting at i can reach
LineEnd(s, i) == RunEnd(s, i, IsDot)

\* (?:a|b|c) tried at i: the position after the first alternative that
\* occurs there, 0 when none does
AltEnd(s, i, alts) ==
    LET hits == {k \in 1..Len(alts) : OccursAt(s, i, alts[k])}
    IN  IF hits = {} THEN 0 ELSE i + Len(alts[Min(hits)])

\* (?:w\s+)? tried at p: the position after it when w and whitespace are there,
\* p itself otherwise
OptWord(s, p, w) ==
    IF OccursAt(s, p, w) /\ SpaceAt(s, p + Len(w))
    THEN SkipSpaces(s, p + Len(w))
    ELSE p

\* re.search: the result of the pattern at the leftmost position where it matches
Search(s, At(_, _)) ==
    LET starts == {i \in 1..Len(s) : At(s, i).found}
    IN  IF starts = {} THEN NoMatch ELSE At(s, Min(starts))

\* the first pattern of a list that matches
FirstMatch(results) ==
    LET hits == {k \in 1..Len(results) : results[k].found}
    IN  IF hits = {} THEN NoMatch ELSE results[Min(hits)]

\* the capture (.+) starting at p
RestOfLine(s, p) ==
    IF p >= 1 /\ p <= Len(s) /\ IsDot(s[p])
    THEN Matched(<<SubSeq(s, p, LineEnd(s, p))>>)
    ELSE NoMatch

\* (?:add|create|new)\s+(?:task\s+)?(?:to\s+)?(.+)
CreateEn1At(s, i) ==
    LET j == AltEnd(s, i, <<W.add, W.create, W.new>>)
    IN  IF j = 0 \/ ~SpaceAt(s, j) THEN NoMatch
        ELSE RestOfLine(s, OptWord(s, OptWord(s, SkipSpaces(s, j), W.task), W.to))

\* i\s+(?:need|want)\s+(?:to\s+)?(.+)
CreateEn2At(s, i) ==
    IF ~(OccursAt(s, i, W.i) /\ SpaceAt(s, i + 1)) THEN NoMatch
    ELSE LET j == AltEnd(s, SkipSpaces(s, i + 1), <<W.need, W.want>>)
         IN  IF j = 0 \/ ~SpaceAt(s, j) THEN NoMatch
             ELSE RestOfLine(s, OptWord(s, SkipSpaces(s, j), W.to))

\* reminder?\s+(?:to\s+)?(.+)
CreateEn3At(s, i) ==
    IF ~OccursAt(s, i, W.reminde) THEN NoMatch
    ELSE LET j0 == i + Len(W.reminde)
             j  == IF OccursAt(s, j0, W.r) THEN j0 + 1 ELSE j0
         IN  IF ~SpaceAt(s, j) THEN NoMatch
             ELSE RestOfLine(s, OptWord(s, SkipSpaces(s, j), W.to))

\* the ends e of a capture (.+) that starts at g and is followed by
\* \s+(?:alts): s[g..e] holds no newline, s[e+1] is whitespace and one of the
\* alternatives follows the whitespace run
GroupEnds(s, g, alts) ==
    {e \in g..LineEnd(s, g) :
        SpaceAt(s, e + 1) /\ AltEnd(s, SkipSpaces(s, e + 1), alts) # 0}

\* (?:kal|aaj|parso)\s+(.+)\s+(?:hai|karna): the greedy \s+ and the greedy
\* (.+) give back characters until the tail matches
CreateUr1At(s, i) ==
    LET j == AltEnd(s, i, <<W.kal, W.aaj, W.parso>>)
    IN  IF j = 0 \/ ~SpaceAt(s, j) THEN NoMatch
        ELSE LET gs == {g \in (j + 1)..SkipSpaces(s, j) :
                           GroupEnds(s, g, <<W.hai, W.karna>>) # {}}
             IN  IF gs = {} THEN NoMatch
                 ELSE LET g == Max(gs)
                      IN  Matched(<<SubSeq(s, g, Max(GroupEnds(s, g, <<W.hai, W.karna>>)))>>)

\* (.+)\s+(?:lena|karna|hai)
CreateUr2At(s, i) ==
    LET es == GroupEnds(s, i, <<W.lena, W.karna, W.hai>>)
    IN  IF es = {} THEN NoMatch ELSE Matched(<<SubSeq(s, i, Max(es))>>)

\* (tomorrow|today|kal|aaj|parso|next\s+\w+|\d+/\d+)
DateAt(s, i) ==
    LET j == AltEnd(s, i, <<W.tomorrow, W.today, W.kal, W.aaj, W.parso>>)
        p == SkipSpaces(s, i + Len(W.next))
        d == RunEnd(s, i, IsDigit)
    IN  IF j # 0 THEN Matched(<<SubSeq(s, i, j - 1)>>)
        ELSE IF /\ OccursAt(s, i, W.next) /\ SpaceAt(s, i + Len(W.next))
                /\ p <= Len(s) /\ IsWordChar(s[p])
             THEN Matched(<<SubSeq(s, i, RunEnd(s, p, IsWordChar))>>)
        ELSE IF DigitAt(s, i) /\ OccursAt(s, d + 1, <<"/">>) /\ DigitAt(s, d + 2)
             THEN Matched(<<SubSeq(s, i, RunEnd(s, d + 2, IsDigit))>>)
        ELSE NoMatch

\* (?:show|list|get|view)\s+(?:my\s+)?(?:tasks|todos)
List1At(s, i) ==
    LET j == AltEnd(s, i, <<W.show, W.list, W.get, W.view>>)
        p == SkipSpaces(s, j)
    IN  IF /\ j # 0 /\ SpaceAt(s, j)
           /\ \/ AltEnd(s, OptWord(s, p, W.my), <<W.tasks, W.todos>>) # 0
              \/ AltEnd(s, p, <<W.tasks, W.todos>>) # 0
        THEN Matched(<<>>) ELSE NoMatch

\* what\s+(?:are\s+)?my\s+(?:tasks|todos)
List2At(s, i) ==
    LET j == i + Len(W.what)
        MyTasksAt(q) == /\ OccursAt(s, q, W.my) /\ SpaceAt(s, q + Len(W.my))
                        /\ AltEnd(s, SkipSpaces(s, q + Len(W.my)), <<W.tasks, W.todos>>) # 0
    IN  IF /\ OccursAt(s, i, W.what) /\ SpaceAt(s, j)
           /\ \/ MyTasksAt(OptWord(s, SkipSpaces(s, j), W.are))
              \/ MyTasksAt(SkipSpaces(s, j))
        THEN Matched(<<>>) ELSE NoMatch

\* (?:pending|active|completed)\s+(?:tasks|todos)
List3At(s, i) ==
    LET j == AltEnd(s, i, <<W.pending, W.active, W.completed>>)
    IN  IF j # 0 /\ SpaceAt(s, j) /\ AltEnd(s, SkipSpaces(s, j), <<W.tasks, W.todos>>) # 0
        THEN Matched(<<>>) ELSE NoMatch

\* (?:mere|mere)\s+(?:tasks|kaam)
List4At(s, i) ==
    LET j == AltEnd(s, i, <<W.mere, W.mere>>)
    IN  IF j # 0 /\ SpaceAt(s, j) /\ AltEnd(s, SkipSpaces(s, j), <<W.tasks, W.kaam>>) # 0
        THEN Matched(<<>>) ELSE NoMatch

\* (pending|active|completed)
StatusAt(s, i) ==
    LET j == AltEnd(s, i, <<W.pending, W.active, W.completed>>)
    IN  IF j # 0 THEN Matched(<<SubSeq(s, i, j - 1)>>) ELSE NoMatch

\* (?:verbs)\s+(?:task\s+)?(?:id\s+)?(\d+): the position of the first digit, 0
\* when the pattern does not match at i
IdAfterVerb(s, i, verbs) ==
    LET j == AltEnd(s, i, verbs)
        p == OptWord(s, OptWord(s, SkipSpaces(s, j), W.task), W.id)
    IN  IF j # 0 /\ SpaceAt(s, j) /\ DigitAt(s, p) THEN p ELSE 0

\* a pattern whose group is (\d), one digit
VerbOneDigitAt(s, i, verbs) ==
    LET p == IdAfterVerb(s, i, verbs)
    IN  IF p = 0 THEN NoMatch ELSE Matched(<<SubSeq(s, p, p)>>)

\* (?:verbs)\s+(?:task\s+)?(?:id\s+)?(\d+)
VerbIdAt(s, i, verbs) ==
    LET p == IdAfterVerb(s, i, verbs)
    IN  IF p = 0 THEN NoMatch ELSE Matched(<<SubSeq(s, p, RunEnd(s, p, IsDigit))>>)

\* (?:task|kaam)\s+(\d+)\s+(?:words)
IdVerbAt(s, i, words) ==
    LET j == AltEnd(s, i, <<W.task, W.kaam>>)
        p == SkipSpaces(s, j)
        d == RunEnd(s, p, IsDigit)
    IN  IF /\ j # 0 /\ SpaceAt(s, j) /\ DigitAt(s, p)
           /\ SpaceAt(s, d + 1) /\ AltEnd(s, SkipSpaces(s, d + 1), words) # 0
        THEN Matched(<<SubSeq(s, p, d)>>) ELSE NoMatch

\* (?:mark|complete|finish|done)\s+(?:task\s+)?(?:id\s+)?(\d+)
Complete1At(s, i) == VerbIdAt(s, i, <<W.mark, W.complete, W.finish, W.done>>)

\* (?:task|kaam)\s+(\d+)\s+(?:complete|khatam|done)
Complete2At(s, i) == IdVerbAt(s, i, <<W.complete, W.khatam, W.done>>)

\* (?:delete|remove|cancel)\s+(?:task\s+)?(?:id\s+)?(\d+)
Delete1At(s, i) == VerbIdAt(s, i, <<W.delete, W.remove, W.cancel>>)

\* (?:task|kaam)\s+(\d+)\s+(?:delete|hata)
Delete2At(s, i) == IdVerbAt(s, i, <<W.delete, W.hata>>)

\* (?:update|change|edit)\s+(?:task\s+)?(?:id\s+)?(\d+)\s+(?:to\s+)?(.+)
UpdateAt(s, i) ==
    LET p == IdAfterVerb(s, i, <<W.update, W.change, W.edit>>)
        d == RunEnd(s, p, IsDigit)
        r == RestOfLine(s, OptWord(s, SkipSpaces(s, d + 1), W.to))
    IN  IF p # 0 /\ SpaceAt(s, d + 1) /\ r.found
        THEN Matched(<<SubSeq(s, p, d), r.groups[1]>>) ELSE NoMatch

(***************************************************************************)
(* QwenAIAgent._parse_intent_rule_based: the categories are tried in the    *)
(* order of the code, each with its patterns in list order.                 *)
(***************************************************************************)
CreatePatterns(s) ==
    <<Search(s, CreateEn1At), Search(s, CreateEn2At), Search(s, CreateEn3At),
      Search(s, CreateUr1At), Search(s, CreateUr2At)>>

ListPatterns(s) ==
    <<Search(s, List1At), Search(s, List2At), Search(s, List3At), Search(s, List4At)>>

SummarizeKeywords == <<W.summarize, W.summary, W.overview, W.kitne_tasks>>

CompletePatterns(s) == <<Search(s, Complete1At), Search(s, Complete2At)>>

DeletePatterns(s) == <<Search(s, Delete1At), Search(s, Delete2At)>>

UpdatePatterns(s) == <<Search(s, UpdateAt)>>

HelpKeywords == <<W.help, W.help, W.kya_kar_sakte, W.commands>>

\* any(word in message_lower for word in [...])
SummarizeMatch(s) == \E w \in Range(SummarizeKeywords) : Contains(s, w)

HelpMatch(s) == \E w \in Range(HelpKeywords) : Contains(s, w)

\* a parser that tests the keyword categories before the create patterns
CreateMatchAfterKeywords(s) ==
    IF SummarizeMatch(s) \/ HelpMatch(s) THEN NoMatch ELSE FirstMatch(CreatePatterns(s))

\* for pattern in patterns: match = re.search(pattern, message_lower); if match
CreateMatch(s) == FirstMatch(CreatePatterns(s))

ListMatch(s) == FirstMatch(ListPatterns(s))

CompleteMatch(s) == FirstMatch(CompletePatterns(s))

DeleteMatch(s) == FirstMatch(DeletePatterns(s))

UpdateMatch(s) == FirstMatch(UpdatePatterns(s))

\* an Optional value: <<>> is None, <<v>> is the value v
None == <<>>

Some(v) == <<v>>

parse_intent_rule_based(message) ==
    LET message_lower == Strip(Lower(message))
        create     == CreateMatch(message_lower)
        date_match == Search(message_lower, DateAt)
        status_match == Search(message_lower, StatusAt)
        complete   == CompleteMatch(message_lower)
        delete     == DeleteMatch(message_lower)
        update     == UpdateMatch(message_lower)
    IN  IF create.found THEN
            [intent |-> "create_task",
             data |-> [title |-> TitleCase(Strip(create.groups[1])),
                       description |-> s_created_via_ai_chat \o
                           (IF date_match.found THEN s_dash \o date_match.groups[1]
                            ELSE <<>>)]]
        ELSE IF ListMatch(message_lower).found THEN
            [intent |-> "list_tasks",
             data |-> [status |-> IF status_match.found
                                  THEN Some(status_match.groups[1]) ELSE None]]
        ELSE IF SummarizeMatch(message_lower) THEN
            [intent |-> "summarize_tasks", data |-> <<>>]
        ELSE IF complete.found THEN
            [intent |-> "complete_task", data |-> [task_id |-> ToInt(complete.groups[1])]]
        ELSE IF delete.found THEN
            [intent |-> "delete_task", data |-> [task_id |-> ToInt(delete.groups[1])]]
        ELSE IF update.found THEN
            [intent |-> "update_task",
             data |-> [task_id |-> ToInt(update.groups[1]),
                       new_title |-> TitleCase(Strip(update.groups[2]))]]
        ELSE IF HelpMatch(message_lower) THEN
            [intent |-> "help", data |-> <<>>]
        ELSE [intent |-> "unknown", data |-> [original_message |-> message]]

(***************************************************************************)
(* The messages the parser is applied to: every sequence of up to MaxWords  *)
(* words of a vocabulary, joined by single blanks; the commands             *)
(* "Mark task N as done" and "Delete task N"; "Add task <text>" for every   *)
(* text of up to MaxTextWords words; and messages with newlines, tabs and   *)
(* runs of blanks.                                                          *)
(***************************************************************************)
MaxWords == 2

MaxTextWords == 2

MaxN == 120

Vocabulary ==
    {W.add, W.task, W.to, W.kal, W.hai, W.karna, W.tomorrow, W.show, W.my, W.tasks,
     W.pending, W.summary, W.mark, W.done, W.delete, W.update, W.help, W.yes,
     W.i, W.want, W.mere, W.kaam, W.complete, W.hata, W.new,
     <<"1">>, <<"1", "2">>, <<"3", "/", "4">>, <<"b", "u", "y">>, <<"m", "i", "l", "k">>,
     <<"A", "d", "d">>, <<"T", "a", "s", "k">>, <<"r", "e", "n", "e", "w">>,
     <<"c", "h", "a", "i">>, <<"k", "a", "l", "a", "m">>}

TextVocabulary ==
    {W.to, W.task, W.tomorrow, W.kal, W.hai, W.next, W.add,
     <<"b", "u", "y">>, <<"m", "i", "l", "k">>, <<"M", "o", "m">>, <<"x", "1", "y">>,
     <<"3", "/", "4">>, <<"d", "o", "n", "'", "t">>}

RECURSIVE Join(_)
Join(ws) ==
    IF Len(ws) = 0 THEN <<>>
    ELSE IF Len(ws) = 1 THEN ws[1]
    ELSE ws[1] \o <<" ">> \o Join(Tail(ws))

Phrases(V, n) == UNION {{Join(ws) : ws \in [1..k -> V]} : k \in 1..n}

s_Add_task == <<"A", "d", "d", " ", "t", "a", "s", "k">>

s_Mark_task == <<"M", "a", "r", "k", " ", "t", "a", "s", "k">>

s_as_done == <<"a", "s", " ", "d", "o", "n", "e">>

s_Delete_task == <<"D", "e", "l", "e", "t", "e", " ", "t", "a", "s", "k">>

s_Add_task_buy_milk_tomorrow ==
    <<"A", "d", "d", " ", "t", "a", "s", "k", " ", "b", "u", "y", " ", "m", "i", "l", "k", " ",
      "t", "o", "m", "o", "r", "r", "o", "w">>

AddTaskMessage(text) == Join(<<s_Add_task, text>>)

MarkMessage(n) == Join(<<s_Mark_task, ToDigits(n), s_as_done>>)

DeleteMessage(n) == Join(<<s_Delete_task, ToDigits(n)>>)

AddTexts == Phrases(TextVocabulary, MaxTextWords)

OddMessages ==
    {<<"K", "a", "l", " ", " ", " ", "h", "a", "i">>,
     <<"k", "a", "l", " ", "a", "\n", " ", "h", "a", "i">>,
     <<"a", "\n", "b", "\n", " ", "h", "a", "i">>,
     <<"a", "d", "d", " ", "\t", "x">>,
     <<"n", "e", "w", "\n", "i", "d", "e", "a">>,
     <<" ", "l", "e", "n", "a", " ", "x", " ">>,
     <<"t", "a", "s", "k", " ", "3", " ", "d", "o", "n", "e", " ", "4">>,
     <<"e", "d", "i", "t", " ", "5", " ", "t", "o", " ", "a", "\n", "b">>,
     <<"D", "E", "L", "E", "T", "E", " ", " ", "T", "A", "S", "K", "\t", "8">>,
     <<"n", "e", "x", "t", " ", " ", "f", "r", "i", " ", "a", "d", "d", " ", "x">>,
     <<"d", "e", "l", "e", "t", "e", " ", "1", " ", "m", "a", "r", "k", " ", "2">>,
     <<"s", "h", "o", "w", " ", "t", "a", "s", "k", "s", " ", "s", "u", "m", "m", "a", "r", "y">>,
     <<"u", "p", "d", "a", "t", "e", " ", "1", " ", "t", "o", " ", "h", "e", "l", "p">>,
     <<"e", "d", "i", "t", " ", "2", " ", "d", "e", "l", "e", "t", "e", " ", "3">>,
     <<"a", "d", "d", " ", "t", "a", "s", "k", " ", "d", "e", "l", "e", "t", "e", " ", "1">>,
     <<"Y", "e", "s", ",", " ", "d", "e", "l", "e", "t", "e", " ", "t", "a", "s", "k", " ", "1">>,
     <<"y", "e", "s">>,
     s_Add_task_buy_milk_tomorrow}

ParserInputs ==
    Phrases(Vocabulary, MaxWords)
        \cup {AddTaskMessage(t) : t \in AddTexts}
        \cup {MarkMessage(n) : n \in 0..MaxN}
        \cup {DeleteMessage(n) : n \in 0..MaxN}
        \cup OddMessages

(***************************************************************************)
(* Bounds of the model and the inputs the operations are tried with.        *)
(***************************************************************************)
\* ids handed out by a store in one behaviour
MaxTasks == 2

\* ticks of the clock behind datetime.utcnow()
MaxClock == 1

\* chat turns in one behaviour
MaxTurns == 2

\* Field(min_length=1) of the title in TaskCreate and TaskUpdate
MinTitleLen == 1

\* Field(max_length=200) of the title, and the limit of Task._validate_title
MaxTitleLen == 200

\* Field(max_length=1000) of the description, and the limit of
\* Task._normalize_description
MaxDescriptionLen == 1000

LongTitle == Repeat("x", MaxTitleLen + 1)

LongDescription == Repeat("y", MaxDescriptionLen + 1)

\* a field of a JSON body or an optional argument: left out, null, or a string
Unset == [set |-> FALSE, value |-> None]

Null == [set |-> TRUE, value |-> None]

Str(s) == [set |-> TRUE, value |-> Some(s)]

Body(title, description) == [title |-> title, description |-> description]

\* bodies of POST /tasks: a plain title, no title, an empty, a blank and an
\* over-long title, an over-long description
CreateBodies ==
    {Body(Str(<<"a">>), Unset), Body(Unset, Unset), Body(Str(<<>>), Unset),
     Body(Str(<<" ">>), Unset), Body(Str(LongTitle), Unset),
     Body(Str(<<"a">>), Str(LongDescription))}

\* bodies of PUT /tasks/{task_id}
UpdateBodies ==
    {Body(Unset, Str(<<"d">>)), Body(Str(<<>>), Unset), Body(Str(<<" ">>), Unset),
     Body(Null, Unset), Body(Str(LongTitle), Unset), Body(Unset, Str(LongDescription))}

\* arguments of the CLI commands add and update
AddArguments ==
    {Body(Str(<<"a">>), Unset), Body(Str(<<>>), Unset), Body(Str(<<" ">>), Unset),
     Body(Str(<<" ", "b", " ">>), Str(<<" ">>)), Body(Str(LongTitle), Unset),
     Body(Str(<<"a">>), Str(LongDescription))}

UpdateArguments ==
    {Body(Unset, Str(<<"d">>)), Body(Str(<<>>), Unset), Body(Str(<<" ">>), Unset),
     Body(Str(LongTitle), Unset), Body(Unset, Str(LongDescription))}

\* task ids a client names: 0 is never the id of a task
TaskIds == 0..MaxTasks

\* two session ids that differ in case alone
SessionIds == {"s1", "S1"}

(***************************************************************************)
(* State.                                                                   *)
(***************************************************************************)
VARIABLES
    program,        \* which program of the repository runs
    now,            \* the clock read by datetime.utcnow() and datetime.now()
    tasks,          \* table tasks of the database: id -> row
    task_id_seq,    \* the last id the database gave to a task row
    conversations,  \* table conversations, in id order
    messages,       \* table messages, in id order
    repo_tasks,     \* InMemoryTaskRepository._tasks
    next_id,        \* InMemoryTaskRepository._next_id
    parse_input,    \* the message handed to the intent parser
    parsed,         \* what the intent parser returned for it
    mode,           \* QwenAIAgent.mode of the agent the service holds
    turns,          \* the chat requests in progress and answered, in arrival order
    agent,          \* the other fields of the QwenAIAgent and what is installed
    calls,          \* the calls of initialize and process_message in progress
    invocations     \* the runs of the CLI entry point: arguments and exit code

vars == <<program, now, tasks, task_id_seq, conversations, messages,
          repo_tasks, next_id, parse_input, parsed, mode, turns,
          agent, calls, invocations>>

api_vars == <<tasks, task_id_seq, conversations, messages>>

cli_vars == <<repo_tasks, next_id>>

parser_vars == <<parse_input, parsed>>

turn_vars == <<mode, turns>>

process_vars == <<agent, calls, invocations>>

\* QwenAIAgent(hf_token=...): the fields __init__ sets beside mode, with
\* HTTPX_AVAILABLE and TRANSFORMERS_AVAILABLE of the module; hf_token is None
\* or a text, http_client is FALSE for None
QwenAIAgent(hf_token, httpx_available, transformers_available) ==
    [hf_token |-> hf_token, httpx_available |-> httpx_available,
     transformers_available |-> transformers_available,
     http_client |-> FALSE, initialized |-> FALSE]

\* the agent after initialize() left it in mode m
InitializedIn(m) ==
    [QwenAIAgent(IF m = "huggingface_api" THEN Some(<<"h", "f">>) ELSE None,
                 m = "huggingface_api", m = "local")
        EXCEPT !.http_client = (m = "huggingface_api"), !.initialized = TRUE]

\* no CLI run was made and no call of the agent is in progress
NoProcess(m) ==
    /\ agent = InitializedIn(m)
    /\ calls = <<>>
    /\ invocations = <<>>

Put(f, k, v) == [i \in DOMAIN f \cup {k} |-> IF i = k THEN v ELSE f[i]]

Drop(f, k) == [i \in DOMAIN f \ {k} |-> f[i]]

Init ==
    /\ program \in {"api", "cli"}
    /\ now = 0
    /\ tasks = <<>>
    /\ task_id_seq = 0
    /\ conversations = <<>>
    /\ messages = <<>>
    /\ repo_tasks = <<>>
    /\ next_id = 1
    /\ parse_input = <<>>
    /\ parsed = None
    /\ mode = "rule_based"
    /\ turns = <<>>
    /\ NoProcess(mode)

\* time passes between two readings of the clock
Tick ==
    /\ now < MaxClock
    /\ now' = now + 1
    /\ UNCHANGED <<program, api_vars, cli_vars, parser_vars, turn_vars, process_vars>>

(***************************************************************************)
(* backend/models/task.py and backend/repositories/task_repository.py       *)
(***************************************************************************)
\* Task(title=..., description=...): a table model, built without validation
Task(title, description) ==
    [title |-> title, description |-> description, status |-> "pending",
     created_at |-> now, completed_at |-> None]

\* a mark_complete that sets the status alone
mark_complete_status_only(task) == [task EXCEPT !.status = "completed"]

\* Task.mark_complete
mark_complete(task) ==
    [task EXCEPT !.status = "completed", !.completed_at = Some(now)]

\* TaskRepository.get_by_id
get_by_id(store, id) == IF id \in DOMAIN store THEN Some(store[id]) ELSE None

\* TaskRepository.get_all: ordered by created_at, rows of one instant in id order
RECURSIVE SortedIds(_, _)
SortedIds(store, ids) ==
    IF ids = {} THEN <<>>
    ELSE LET first == CHOOSE i \in ids : \A j \in ids :
                          \/ store[i].created_at < store[j].created_at
                          \/ store[i].created_at = store[j].created_at /\ i <= j
         IN  <<first>> \o SortedIds(store, ids \ {first})

get_all(store) == [k \in 1..Cardinality(DOMAIN store) |-> store[SortedIds(store, DOMAIN store)[k]]]

\* TaskRepository.add: the database assigns the next id of its sequence
repository_add(store, seq, task) == [tasks |-> Put(store, seq + 1, task), seq |-> seq + 1]

\* TaskRepository.update
repository_update(store, id, task) == Put(store, id, task)

\* a delete that loses its commit
repository_delete_uncommitted(store, id) == store

\* TaskRepository.delete
repository_delete(store, id) == IF id \in DOMAIN store THEN Drop(store, id) ELSE store

(***************************************************************************)
(* backend/routers/tasks.py with the request schemas of schemas/task.py.    *)
(* Each endpoint is an operator that gives the status of the response and   *)
(* the table it leaves, and an action that answers one request.             *)
(***************************************************************************)
\* the constraints of TaskCreate and TaskUpdate on a title that is given
ValidTitle(title) == Len(title) >= MinTitleLen /\ Len(title) <= MaxTitleLen

\* the constraint of TaskCreate and TaskUpdate on a description that is given
ValidDescription(description) == Len(description) <= MaxDescriptionLen

\* TaskCreate: the title is required; TaskUpdate: every field may be left out
\* or null
ValidCreate(title, description) ==
    /\ title.value # None /\ ValidTitle(title.value[1])
    /\ description.value = None \/ ValidDescription(description.value[1])

ValidUpdate(title, description) ==
    /\ title.value = None \/ ValidTitle(title.value[1])
    /\ description.value = None \/ ValidDescription(description.value[1])

Response(status, store, seq) == [status |-> status, tasks |-> store, seq |-> seq]

\* POST /tasks
rest_create_task(title, description) ==
    IF ~ValidCreate(title, description) THEN Response(422, tasks, task_id_seq)
    ELSE LET added == repository_add(tasks, task_id_seq,
                                     Task(title.value[1], description.value))
         IN  Response(201, added.tasks, added.seq)

\* GET /tasks/{task_id}: 404 when the repository returns None
GetStatus(store, id) == IF get_by_id(store, id) = None THEN 404 ELSE 200

rest_get_task(id) == Response(GetStatus(tasks, id), tasks, task_id_seq)

\* PUT /tasks/{task_id}: the body is validated, the row is looked up, the fields
\* the body sets are assigned and the row is committed; a null title violates
\* the NOT NULL column and the commit fails
rest_update_task(id, title, description) ==
    IF ~ValidUpdate(title, description) THEN Response(422, tasks, task_id_seq)
    ELSE IF get_by_id(tasks, id) = None THEN Response(404, tasks, task_id_seq)
    ELSE IF title.set /\ title.value = None THEN Response(500, tasks, task_id_seq)
    ELSE LET task == tasks[id]
             with_title == IF title.set THEN [task EXCEPT !.title = title.value[1]]
                           ELSE task
             updated == IF description.set
                        THEN [with_title EXCEPT !.description = description.value]
                        ELSE with_title
         IN  Response(200, repository_update(tasks, id, updated), task_id_seq)

\* a DELETE that answers 204 for every id
rest_delete_task_silent(id) == Response(204, repository_delete(tasks, id), task_id_seq)

\* DELETE /tasks/{task_id}
rest_delete_task(id) ==
    IF get_by_id(tasks, id) = None THEN Response(404, tasks, task_id_seq)
    ELSE Response(204, repository_delete(tasks, id), task_id_seq)

\* PATCH /tasks/{task_id}/complete
rest_complete_task(id) ==
    IF get_by_id(tasks, id) = None THEN Response(404, tasks, task_id_seq)
    ELSE Response(200, repository_update(tasks, id, mark_complete(tasks[id])), task_id_seq)

\* the database holds what the endpoint leaves
Answer(response) ==
    /\ program = "api"
    /\ tasks' = response.tasks
    /\ task_id_seq' = response.seq
    /\ UNCHANGED <<program, now, conversations, messages, cli_vars, parser_vars, turn_vars, process_vars>>

\* ids are handed out up to MaxTasks
CanCreate(seq) == seq < MaxTasks

RestCreate(title, description) ==
    CanCreate(task_id_seq) /\ Answer(rest_create_task(title, description))

RestGet(id) == Answer(rest_get_task(id))

RestUpdate(id, title, description) == Answer(rest_update_task(id, title, description))

RestDelete(id) == Answer(rest_delete_task(id))

RestComplete(id) == Answer(rest_complete_task(id))
(***************************************************************************)
(* huggingface-deploy/backend/services/mcp_tools.py: the tool layer.  Each  *)
(* tool returns the store it leaves and its result dictionary.              *)
(***************************************************************************)
ToolResult(store, seq, success, action, task_id) ==
    [tasks |-> store, seq |-> seq, success |-> success, action |-> action, task_id |-> task_id]

\* MCPTaskTools.create_task
create_task(store, seq, title, description) ==
    LET added == repository_add(store, seq, Task(title, description))
    IN  ToolResult(added.tasks, added.seq, TRUE, "task_created", added.seq)

\* MCPTaskTools.update_task: a title or description that is None or empty is
\* not assigned
update_task(store, seq, task_id, title, description) ==
    IF get_by_id(store, task_id) = None
    THEN ToolResult(store, seq, FALSE, "update_failed", task_id)
    ELSE LET task == store[task_id]
             with_title == IF title # None /\ title[1] # <<>>
                           THEN [task EXCEPT !.title = title[1]] ELSE task
             updated == IF description # None /\ description[1] # <<>>
                        THEN [with_title EXCEPT !.description = description]
                        ELSE with_title
         IN  ToolResult(repository_update(store, task_id, updated), seq, TRUE,
                        "task_updated", task_id)

\* a delete tool that empties the table
delete_task_all(store, seq, task_id) ==
    IF get_by_id(store, task_id) = None
    THEN ToolResult(store, seq, FALSE, "delete_failed", task_id)
    ELSE ToolResult(<<>>, seq, TRUE, "task_deleted", task_id)

\* MCPTaskTools.delete_task
delete_task(store, seq, task_id) ==
    IF get_by_id(store, task_id) = None
    THEN ToolResult(store, seq, FALSE, "delete_failed", task_id)
    ELSE ToolResult(repository_delete(store, task_id), seq, TRUE, "task_deleted", task_id)

\* MCPTaskTools.complete_task
complete_task(store, seq, task_id) ==
    IF get_by_id(store, task_id) = None
    THEN ToolResult(store, seq, FALSE, "complete_failed", task_id)
    ELSE ToolResult(repository_update(store, task_id, mark_complete(store[task_id])), seq,
                    TRUE, "task_completed", task_id)

(***************************************************************************)
(* huggingface-deploy/backend/services/ai_agent.py: the response templates   *)
(* and process_message of an agent in rule-based mode.                      *)
(***************************************************************************)
UrduWords == <<W.hai, W.karna, W.kal, W.aaj, W.mera, W.mere, W.kaam>>

\* QwenAIAgent._generate_response_rule_based: the variant is chosen from the
\* original_message entry of data, the text from the intent
generate_response_rule_based(intent, data) ==
    LET original == IF "original_message" \in DOMAIN data
                    THEN Lower(data.original_message) ELSE <<>>
        is_urdu == \E w \in Range(UrduWords) : Contains(original, w)
    IN  [variant |-> IF is_urdu THEN "roman_urdu" ELSE "english", text |-> intent]

\* the dictionary process_message returns for a parsed message
AgentResult(m, p) ==
    [intent |-> p.intent, data |-> p.data,
     response |-> generate_response_rule_based(p.intent, p.data),
     original_message |-> m, mode |-> "rule_based"]

\* QwenAIAgent.process_message
process_message(m) == AgentResult(m, parse_intent_rule_based(m))

(***************************************************************************)
(* backend/routers/chat.py                                                  *)
(***************************************************************************)
\* the messages sent to the chat endpoint
ChatMessages ==
    {<<"D", "e", "l", "e", "t", "e", " ", "t", "a", "s", "k", " ", "1">>,
     <<"y", "e", "s">>,
     <<"Y", "e", "s", ",", " ", "d", "e", "l", "e", "t", "e", " ", "t", "a", "s", "k", " ", "1">>,
     <<"M", "a", "r", "k", " ", "t", "a", "s", "k", " ", "1", " ", "a", "s", " ", "d", "o", "n", "e">>,
     <<"u", "p", "d", "a", "t", "e", " ", "t", "a", "s", "k", " ", "1", " ", "t", "o", " ", "t", "e", "a">>,
     <<"K", "a", "l", " ", " ", " ", "h", "a", "i">>}

\* the test of the delete branch: "yes" or "confirm" in request.message.lower()
IsConfirmation(m) == Contains(Lower(m), W.yes) \/ Contains(Lower(m), W.confirm)

\* what each of them yields, whatever the state of the store: the agent's
\* answer and the outcome of the confirmation test
RECURSIVE ProcessedOf(_)
ProcessedOf(ms) ==
    IF ms = {} THEN <<>>
    ELSE LET m == CHOOSE x \in ms : TRUE
         IN  (m :> [result |-> process_message(m), confirmed |-> IsConfirmation(m)])
                 @@ ProcessedOf(ms \ {m})

\* "Delete task <id>" for every id a store hands out
DeleteRequests == {DeleteMessage(n) : n \in 1..MaxTasks}

Processed == ProcessedOf(ChatMessages \cup DeleteRequests)

\* a lookup that finds no row
ConversationsOfNone(session_id) == {}

\* ConversationRepository.get_by_session_id: the ids of the rows of a session
ConversationsOf(session_id) ==
    {c \in 1..Len(conversations) : conversations[c].session_id = session_id}

\* what the handling of an intent leaves: the store, the action and the
\* response text
Handled(t, action, text) ==
    [tasks |-> t.tasks, seq |-> t.seq, action |-> action, response |-> text]

Text(t) == [variant |-> "english", text |-> t]

\* a delete branch that calls the tool without testing the message
HandleDeleteUnasked(store, seq, task_id, confirmed) ==
    LET t == delete_task(store, seq, task_id)
    IN  IF t.success
        THEN Handled(t, Some("task_deleted"), Text("task_has_been_deleted"))
        ELSE Handled(t, None, Text("task_not_found"))

\* a delete branch that asks for confirmation and reports no action
HandleDeleteSilent(store, seq, task_id, confirmed) ==
    LET t == delete_task(store, seq, task_id)
        same == [tasks |-> store, seq |-> seq]
    IN  IF confirmed /\ t.success
        THEN Handled(t, Some("task_deleted"), Text("task_has_been_deleted"))
        ELSE IF ~confirmed /\ get_by_id(store, task_id) # None
        THEN Handled(same, None, Text("are_you_sure"))
        ELSE Handled(same, None, Text("task_not_found"))

\* the delete branch of chat: the tool is called only when the message is a
\* confirmation, otherwise the task is looked up and confirmation is asked
HandleDelete(store, seq, task_id, confirmed) ==
    IF confirmed THEN
        LET t == delete_task(store, seq, task_id)
        IN  IF t.success
            THEN Handled(t, Some("task_deleted"), Text("task_has_been_deleted"))
            ELSE Handled(t, None, Text("task_not_found"))
    ELSE LET t == [tasks |-> store, seq |-> seq]
         IN  IF get_by_id(store, task_id) # None
             THEN Handled(t, Some("delete_confirmation"), Text("are_you_sure"))
             ELSE Handled(t, None, Text("task_not_found"))

\* the text of a created task: the agent's when it says "created" or "ban
\* gaya", as both of its templates do, the handler's own otherwise
KeptOrCreated(ai_response) ==
    IF ai_response.variant = "generated" THEN Text("task_created") ELSE ai_response

\* the intent handling of chat
HandleIntent(result, confirmed) ==
    LET intent == result.intent
        data == result.data
        same == [tasks |-> tasks, seq |-> task_id_seq]
    IN  IF intent = "create_task" THEN
            Handled(create_task(tasks, task_id_seq, data.title, Some(data.description)),
                    Some("task_created"), KeptOrCreated(result.response))
        ELSE IF intent = "list_tasks" THEN
            Handled(same, Some("tasks_listed"), Text("you_have_n_tasks"))
        ELSE IF intent = "summarize_tasks" THEN
            Handled(same, Some("tasks_summarized"), Text("summary_counts"))
        ELSE IF intent = "delete_task" THEN
            HandleDelete(tasks, task_id_seq, data.task_id, confirmed)
        ELSE IF intent = "complete_task" THEN
            LET t == complete_task(tasks, task_id_seq, data.task_id)
            IN  IF t.success
                THEN Handled(t, Some("task_completed"), Text("marked_complete"))
                ELSE Handled(t, None, Text("task_not_found"))
        ELSE IF intent = "update_task" THEN
            LET t == update_task(tasks, task_id_seq, data.task_id, Some(data.new_title), None)
            IN  IF t.success
                THEN Handled(t, Some("task_updated"), Text("task_updated_to"))
                ELSE Handled(t, None, Text("task_not_found"))
        ELSE IF intent = "help" THEN
            Handled(same, Some("help_provided"), result.response)
        ELSE Handled(same, Some("unknown_intent"), result.response)

\* POST /chat, one whole turn: the conversation of the session is found or
\* opened, the user message is stored, the agent's answer is handled, the
\* assistant message is stored and the conversation is stamped.
\* MessageRepository.add hands its metadata to Message(metadata=...), which is
\* no field of the model (the field is msg_metadata), so both rows are stored
\* with no metadata
ChatResponse(session_id, m, result, handled) ==
    LET found == ConversationsOf(session_id)
        conversation_id == IF found = {} THEN Len(conversations) + 1 ELSE Min(found)
        opened == IF found = {}
                  THEN Append(conversations, [session_id |-> session_id,
                                              created_at |-> now, updated_at |-> now])
                  ELSE conversations
        user_message == [conversation_id |-> conversation_id, role |-> "user",
                         content |-> m, created_at |-> now, metadata |-> None]
        assistant_message ==
            [conversation_id |-> conversation_id, role |-> "assistant",
             content |-> handled.response, created_at |-> now, metadata |-> None]
    IN  [status |-> 200,
         response |-> handled.response,
         action |-> handled.action,
         conversation_id |-> conversation_id,
         metadata |-> [intent |-> result.intent, original_message |-> m,
                       mode |-> result.mode],
         tasks |-> handled.tasks,
         seq |-> handled.seq,
         conversations |-> [opened EXCEPT ![conversation_id].updated_at = now],
         messages |-> messages \o <<user_message, assistant_message>>]

ChatOf(session_id, m, processed) ==
    ChatResponse(session_id, m, processed.result,
                 HandleIntent(processed.result, processed.confirmed))

chat(session_id, m) == ChatOf(session_id, m, Processed[m])

\* the database holds what the turn leaves
Store(answer) ==
    /\ program = "api"
    /\ Len(messages) < 2 * MaxTurns
    /\ answer.metadata.intent = "create_task" => CanCreate(task_id_seq)
    /\ tasks' = answer.tasks
    /\ task_id_seq' = answer.seq
    /\ conversations' = answer.conversations
    /\ messages' = answer.messages
    /\ UNCHANGED <<program, now, cli_vars, parser_vars, turn_vars, process_vars>>

\* one request to POST /chat
Chat(session_id, m) == Store(chat(session_id, m))

(***************************************************************************)
(* GET /chat/history/{session_id}                                           *)
(***************************************************************************)
\* limit=50 of the call of get_latest in get_conversation_history
HistoryLimit == 50

\* a slice xs[:n]
Take(xs, n) == SubSeq(xs, 1, Min({n, Len(xs)}))

Reverse(xs) == [k \in 1..Len(xs) |-> xs[Len(xs) + 1 - k]]

\* ORDER BY created_at DESC: the orders the database may give to the rows
\* ids, rows of one instant in any order
DescendingOrders(rows, ids) ==
    {f \in [1..Cardinality(ids) -> ids] :
        /\ \A i, j \in DOMAIN f : i # j => f[i] # f[j]
        /\ \A i, j \in DOMAIN f : i < j => rows[f[i]].created_at >= rows[f[j]].created_at}

\* MessageRepository.get_latest: the ids of the rows it may return, the first
\* limit rows of the descending order, reversed
get_latest(rows, conversation_id, limit) ==
    LET ids == {k \in 1..Len(rows) : rows[k].conversation_id = conversation_id}
    IN  {Reverse(Take(f, limit)) : f \in DescendingOrders(rows, ids)}

\* MessageResponse(..., metadata=msg.metadata) for the rows of latest:
\* Message has no attribute metadata of its own (its field is msg_metadata),
\* so msg.metadata is SQLModel.metadata, the MetaData of the tables, which is
\* no dictionary: building the first MessageResponse raises ValidationError
\* and the request is answered 500
HistoryOf(latest) ==
    IF latest = <<>> THEN [status |-> 200, messages |-> <<>>]
    ELSE [status |-> 500, messages |-> <<>>]

\* get_conversation_history: the responses it may give
get_conversation_history(session_id) ==
    LET found == ConversationsOf(session_id)
    IN  IF found = {} THEN {[status |-> 404, messages |-> <<>>]}
        ELSE {HistoryOf(latest) :
                  latest \in UNION {get_latest(messages, c, HistoryLimit) : c \in found}}

\* one request to GET /chat/history/{session_id}: it reads the tables
History(session_id) ==
    /\ program = "api"
    /\ get_conversation_history(session_id) # {}
    /\ UNCHANGED vars
(***************************************************************************)
(* src/domain/task.py, src/infrastructure/in_memory_repository.py and       *)
(* src/cli/commands.py: the CLI handlers over the in-memory repository.     *)
(***************************************************************************)
\* Task._validate_title and Task._normalize_description: the exception that
\* Task(title=..., description=...) raises, "" when it raises none
domain_Task_error(title, description) ==
    IF title = <<>> \/ Strip(title) = <<>> THEN "ValueError"
    ELSE IF Len(Strip(title)) > MaxTitleLen THEN "ValueError"
    ELSE IF description # None /\ Len(Strip(description[1])) > MaxDescriptionLen
         THEN "ValueError"
    ELSE ""

\* the Task that __post_init__ leaves: title trimmed, description trimmed and
\* None when empty
domain_Task(title, description) ==
    [title |-> Strip(title),
     description |-> IF description = None \/ Strip(description[1]) = <<>>
                     THEN None ELSE Some(Strip(description[1])),
     status |-> "pending", created_at |-> now, completed_at |-> None, id |-> 0]

\* Task.mark_complete of the domain layer
domain_mark_complete(task) ==
    [task EXCEPT !.status = "completed", !.completed_at = Some(now)]

\* InMemoryTaskRepository.get_by_id and .delete reject ids that are not positive
InvalidId(id) == id <= 0

\* InMemoryTaskRepository.get_by_id of a positive id: self._tasks.get(id)
repo_get_by_id(repo, id) == IF id \in DOMAIN repo THEN Some(repo[id]) ELSE None

\* what a handler leaves: the exception it raised ("" when none) and the
\* repository
Outcome(error, repo, next) == [error |-> error, repo_tasks |-> repo, next_id |-> next]

\* an add that gives the task the first id above the ids in the store
memory_add_above(repo, next, task) ==
    LET id == Max(DOMAIN repo \cup {0}) + 1
    IN  Outcome("", Put(repo, id, [task EXCEPT !.id = id]), id + 1)

\* InMemoryTaskRepository.add
memory_add(repo, next, task) ==
    Outcome("", Put(repo, next, [task EXCEPT !.id = next]), next + 1)

\* InMemoryTaskRepository.update
memory_update(repo, next, task) ==
    IF task.id \notin DOMAIN repo THEN Outcome("TaskNotFoundError", repo, next)
    ELSE Outcome("", Put(repo, task.id, task), next)

\* InMemoryTaskRepository.delete: error "" and the store as it was when the
\* id is not found (it returns False)
memory_delete(repo, next, id) ==
    IF InvalidId(id) THEN Outcome("ValueError", repo, next)
    ELSE IF id \in DOMAIN repo THEN Outcome("", Drop(repo, id), next)
    ELSE Outcome("", repo, next)

\* handle_add
cli_add(title, description) ==
    IF domain_Task_error(title, description) # ""
    THEN Outcome(domain_Task_error(title, description), repo_tasks, next_id)
    ELSE memory_add(repo_tasks, next_id, domain_Task(title, description))

\* handle_update: the fields that are given are assigned as they are
cli_update(task_id, title, description) ==
    IF InvalidId(task_id) THEN Outcome("ValueError", repo_tasks, next_id)
    ELSE IF task_id \notin DOMAIN repo_tasks
    THEN Outcome("TaskNotFoundError", repo_tasks, next_id)
    ELSE LET existing == repo_tasks[task_id]
             with_title == IF title # None
                           THEN [existing EXCEPT !.title = title[1]] ELSE existing
             updated == IF description # None
                        THEN [with_title EXCEPT !.description = description]
                        ELSE with_title
         IN  Outcome("", Put(repo_tasks, task_id, updated), next_id)

\* handle_delete
cli_delete(task_id) ==
    IF InvalidId(task_id) THEN Outcome("ValueError", repo_tasks, next_id)
    ELSE IF task_id \in DOMAIN repo_tasks
    THEN Outcome("", Drop(repo_tasks, task_id), next_id)
    ELSE Outcome("TaskNotFoundError", repo_tasks, next_id)

\* handle_complete
cli_complete(task_id) ==
    IF InvalidId(task_id) THEN Outcome("ValueError", repo_tasks, next_id)
    ELSE IF task_id \notin DOMAIN repo_tasks
    THEN Outcome("TaskNotFoundError", repo_tasks, next_id)
    ELSE Outcome("", Put(repo_tasks, task_id, domain_mark_complete(repo_tasks[task_id])), next_id)

\* the repository holds what the handler leaves
Run(outcome) ==
    /\ program = "cli"
    /\ repo_tasks' = outcome.repo_tasks
    /\ next_id' = outcome.next_id
    /\ UNCHANGED <<program, now, api_vars, parser_vars, turn_vars, process_vars>>

handle_add(title, description) == next_id <= MaxTasks /\ Run(cli_add(title, description))

handle_update(task_id, title, description) == Run(cli_update(task_id, title, description))

handle_delete(task_id) == Run(cli_delete(task_id))

handle_complete(task_id) == Run(cli_complete(task_id))

(***************************************************************************)
(* The service: the REST endpoints and the chat endpoint over the database, *)
(* or the CLI handlers over one in-memory repository.                       *)
(***************************************************************************)
Next ==
    \/ Tick
    \/ \E b \in CreateBodies : RestCreate(b.title, b.description)
    \/ \E id \in TaskIds : RestGet(id)
    \/ \E id \in TaskIds, b \in UpdateBodies : RestUpdate(id, b.title, b.description)
    \/ \E id \in TaskIds : RestDelete(id)
    \/ \E id \in TaskIds : RestComplete(id)
    \/ \E s \in SessionIds, m \in ChatMessages : Chat(s, m)
    \/ \E s \in SessionIds : History(s)
    \/ \E b \in AddArguments : handle_add(b.title.value[1], b.description.value)
    \/ \E id \in TaskIds, b \in UpdateArguments :
           handle_update(id, b.title.value, b.description.value)
    \/ \E id \in TaskIds : handle_delete(id)
    \/ \E id \in TaskIds : handle_complete(id)

Spec == Init /\ [][Next]_vars

(***************************************************************************)
(* The intent parser alone, applied to one message.                         *)
(***************************************************************************)
ParserInit ==
    /\ program = "parser"
    /\ now = 0
    /\ tasks = <<>>
    /\ task_id_seq = 0
    /\ conversations = <<>>
    /\ messages = <<>>
    /\ repo_tasks = <<>>
    /\ next_id = 1
    /\ parse_input \in ParserInputs
    /\ parsed = None
    /\ mode = "rule_based"
    /\ turns = <<>>
    /\ NoProcess(mode)

ParseMessage ==
    /\ program = "parser"
    /\ parsed = None
    /\ parsed' = Some(parse_intent_rule_based(parse_input))
    /\ UNCHANGED <<program, now, api_vars, cli_vars, parse_input, turn_vars, process_vars>>

ParserNext == ParseMessage

ParserSpec == ParserInit /\ [][ParserNext]_vars

(***************************************************************************)
(* The reading tools of mcp_tools.py, and the tool layer driven on its own. *)
(***************************************************************************)
\* tasks a store of the tool layer is filled with
MaxStored == 7

\* pending[:5] and completed[:5] of summarize_tasks
MaxExamples == 5

\* the status filters list_tasks is called with
StatusFilters == {None, Some(""), Some("pending"), Some("active"), Some("completed")}

\* MCPTaskTools._task_to_dict of the row with this id
task_to_dict(store, id) ==
    [id |-> id, title |-> store[id].title, description |-> store[id].description,
     status |-> store[id].status, created_at |-> store[id].created_at,
     completed_at |-> store[id].completed_at]

\* the dictionaries of repository.get_all()
all_tasks(store) ==
    LET ids == SortedIds(store, DOMAIN store)
    IN  [k \in 1..Len(ids) |-> task_to_dict(store, ids[k])]

\* [t for t in xs if t.status == status]
WithStatus(xs, status) == SelectSeq(xs, LAMBDA t : t.status = status)

\* a list_tasks that forgets its filter
list_tasks_unfiltered(store, status) ==
    [success |-> TRUE, action |-> "tasks_listed", tasks |-> all_tasks(store),
     count |-> Len(all_tasks(store))]

\* MCPTaskTools.list_tasks: a filter that is None or empty is not applied
list_tasks(store, status) ==
    LET listed == IF status # None /\ status[1] # ""
                  THEN WithStatus(all_tasks(store), status[1])
                  ELSE all_tasks(store)
    IN  [success |-> TRUE, action |-> "tasks_listed", tasks |-> listed,
         count |-> Len(listed)]

\* a summarize_tasks that hands out every task as an example
summarize_tasks_uncut(store) ==
    [success |-> TRUE, action |-> "tasks_summarized",
     summary |-> [total |-> Len(all_tasks(store)),
                  pending |-> Len(WithStatus(all_tasks(store), "pending")),
                  completed |-> Len(WithStatus(all_tasks(store), "completed"))],
     pending_tasks |-> WithStatus(all_tasks(store), "pending"),
     completed_tasks |-> WithStatus(all_tasks(store), "completed")]

\* MCPTaskTools.summarize_tasks
summarize_tasks(store) ==
    [success |-> TRUE, action |-> "tasks_summarized",
     summary |-> [total |-> Len(all_tasks(store)),
                  pending |-> Len(WithStatus(all_tasks(store), "pending")),
                  completed |-> Len(WithStatus(all_tasks(store), "completed"))],
     pending_tasks |-> Take(WithStatus(all_tasks(store), "pending"), MaxExamples),
     completed_tasks |-> Take(WithStatus(all_tasks(store), "completed"), MaxExamples)]

\* the database holds what a tool leaves
Commit(result) ==
    /\ program = "tools"
    /\ tasks' = result.tasks
    /\ task_id_seq' = result.seq
    /\ UNCHANGED <<program, now, conversations, messages, cli_vars, parser_vars, turn_vars, process_vars>>

ToolCreate ==
    /\ task_id_seq < MaxStored
    /\ Commit(create_task(tasks, task_id_seq, <<"a">>, None))

ToolComplete(task_id) == Commit(complete_task(tasks, task_id_seq, task_id))

ToolDelete(task_id) == Commit(delete_task(tasks, task_id_seq, task_id))

\* the reading tools leave the database as it is
ToolList(status) ==
    /\ list_tasks(tasks, status).success
    /\ Commit([tasks |-> tasks, seq |-> task_id_seq])

ToolSummarize ==
    /\ summarize_tasks(tasks).success
    /\ Commit([tasks |-> tasks, seq |-> task_id_seq])

ToolInit ==
    /\ program = "tools"
    /\ now = 0
    /\ tasks = <<>>
    /\ task_id_seq = 0
    /\ conversations = <<>>
    /\ messages = <<>>
    /\ repo_tasks = <<>>
    /\ next_id = 1
    /\ parse_input = <<>>
    /\ parsed = None
    /\ mode = "rule_based"
    /\ turns = <<>>
    /\ NoProcess(mode)

ToolNext ==
    \/ Tick
    \/ ToolCreate
    \/ \E id \in 0..MaxStored : ToolComplete(id)
    \/ \E id \in 0..MaxStored : ToolDelete(id)
    \/ \E status \in StatusFilters : ToolList(status)
    \/ ToolSummarize

ToolSpec == ToolInit /\ [][ToolNext]_vars

(***************************************************************************)
(* POST /chat statement by statement: several requests in progress at once, *)
(* served by workers that share the database, with an agent in rule-based   *)
(* or in HuggingFace API mode.                                              *)
(***************************************************************************)
\* chat requests in one behaviour
MaxRequests == 2

\* QwenAIAgent.__init__: max_retries
max_retries == 3

\* the messages sent: one that creates a task, one that no pattern matches
TurnMessages == {s_Add_task_buy_milk_tomorrow, <<"y", "e", "s">>}

TurnProcessed == ProcessedOf(TurnMessages)

\* what the inference endpoint does with one request: generated text, blank
\* generated text, HTTP 503, HTTP 429, another error status, a timeout or
\* network error, a body that is not JSON
Upstream == {"generated", "blank", "503", "429", "error_status", "network", "malformed"}

\* a request as it arrives; upstream is the last answer of the inference
\* endpoint in the turn
NewTurn(session_id, m) ==
    [pc |-> "lookup", session_id |-> session_id, message |-> m,
     conversation_id |-> 0, user_message |-> 0, intent |-> None,
     attempt |-> 0, requests |-> 0, waits |-> <<>>, upstream |-> "", generated |-> None,
     error |-> "", handled |-> FALSE, action |-> None, response |-> None,
     assistant_message |-> 0, stamped |-> FALSE, status |-> 0]

\* an attempt that waits and asks again after a 429 as it does after a 503
hf_attempt_retrying(t, template, outcome) ==
    LET sent == [t EXCEPT !.requests = @ + 1, !.upstream = outcome]
        slept == [sent EXCEPT !.waits = Append(@, 2 ^ t.attempt), !.attempt = @ + 1]
        fallback == [sent EXCEPT !.generated = Some(template)]
    IN  IF outcome = "generated"
        THEN [sent EXCEPT !.generated = Some([variant |-> "generated", text |-> "generated"])]
        ELSE IF outcome = "malformed" THEN [sent EXCEPT !.error = "JSONDecodeError"]
        ELSE IF outcome \in {"503", "429"}
        THEN IF slept.attempt = max_retries
             THEN [slept EXCEPT !.generated = Some(template)] ELSE slept
        ELSE IF outcome \in {"blank", "error_status"} THEN fallback
        ELSE IF t.attempt = max_retries - 1 THEN fallback
        ELSE slept

\* an attempt whose loop has no ceiling
hf_attempt_unbounded(t, template, outcome) ==
    LET sent == [t EXCEPT !.requests = @ + 1, !.upstream = outcome]
        slept == [sent EXCEPT !.waits = Append(@, 2 ^ t.attempt), !.attempt = @ + 1]
        fallback == [sent EXCEPT !.generated = Some(template)]
    IN  IF outcome = "generated"
        THEN [sent EXCEPT !.generated = Some([variant |-> "generated", text |-> "generated"])]
        ELSE IF outcome = "malformed" THEN [sent EXCEPT !.error = "JSONDecodeError"]
        ELSE IF outcome = "429" THEN [sent EXCEPT !.error = "RateLimitError"]
        ELSE IF outcome \in {"blank", "error_status"} THEN fallback
        ELSE slept

\* _generate_response_hf_api, one pass of its loop: the request is sent and
\* answered.  return leaves the text in generated, break and the end of the
\* loop leave the template there, raise leaves the exception in error
hf_attempt(t, template, outcome) ==
    LET sent == [t EXCEPT !.requests = @ + 1, !.upstream = outcome]
        slept == [sent EXCEPT !.waits = Append(@, 2 ^ t.attempt), !.attempt = @ + 1]
        fallback == [sent EXCEPT !.generated = Some(template)]
    IN  IF outcome = "generated"
        THEN [sent EXCEPT !.generated = Some([variant |-> "generated", text |-> "generated"])]
        ELSE IF outcome = "blank" THEN fallback
        ELSE IF outcome = "malformed" THEN [sent EXCEPT !.error = "JSONDecodeError"]
        ELSE IF outcome = "503"
        THEN IF slept.attempt = max_retries
             THEN [slept EXCEPT !.generated = Some(template)] ELSE slept
        ELSE IF outcome = "429" THEN [sent EXCEPT !.error = "RateLimitError"]
        ELSE IF outcome = "error_status" THEN fallback
        ELSE IF t.attempt = max_retries - 1 THEN fallback
        ELSE slept

\* a chat that answers every exception alike
StatusOfAny(error) == 500

\* the except clauses of chat: the status of the HTTPException raised for an
\* exception of the turn
StatusOf(error) ==
    IF error = "RateLimitError" THEN 429
    ELSE IF error \in {"AIAgentError", "ModelLoadError", "InferenceError"} THEN 503
    ELSE 500

\* a create that adds no second row for a session
conversation_create_once(rows, session_id) ==
    IF \E c \in 1..Len(rows) : rows[c].session_id = session_id THEN rows
    ELSE Append(rows, [session_id |-> session_id, created_at |-> now, updated_at |-> now])

\* ConversationRepository.create
conversation_create(rows, session_id) ==
    Append(rows, [session_id |-> session_id, created_at |-> now, updated_at |-> now])

\* an add that keeps one row for each conversation and role
message_add_replacing(rows, conversation_id, role, content) ==
    Append(SelectSeq(rows, LAMBDA x : ~(x.conversation_id = conversation_id /\ x.role = role)),
           [conversation_id |-> conversation_id, role |-> role,
            content |-> content, created_at |-> now, metadata |-> None])

\* MessageRepository.add: Message(metadata=...) sets no field of the row
message_add(rows, conversation_id, role, content) ==
    Append(rows, [conversation_id |-> conversation_id, role |-> role,
                  content |-> content, created_at |-> now, metadata |-> None])

\* the step of one turn leaves the turn t behind
Step(r, t) ==
    /\ program = "chat"
    /\ turns' = [turns EXCEPT ![r] = t]
    /\ UNCHANGED <<program, now, mode, cli_vars, parser_vars, process_vars>>

At(r, pc) == r \in DOMAIN turns /\ turns[r].pc = pc

\* a request arrives
Receive(session_id, m) ==
    /\ program = "chat"
    /\ Len(turns) < MaxRequests
    /\ turns' = Append(turns, NewTurn(session_id, m))
    /\ UNCHANGED <<program, now, mode, api_vars, cli_vars, parser_vars, process_vars>>

\* get_or_create: get_by_session_id, the first row of an unordered SELECT
GetBySessionId(r) ==
    /\ At(r, "lookup")
    /\ \/ /\ ConversationsOf(turns[r].session_id) = {}
          /\ Step(r, [turns[r] EXCEPT !.pc = "create"])
       \/ \E c \in ConversationsOf(turns[r].session_id) :
              Step(r, [turns[r] EXCEPT !.pc = "save_user", !.conversation_id = c])
    /\ UNCHANGED api_vars

\* get_or_create: create, when the lookup found no row
CreateConversation(r) ==
    /\ At(r, "create")
    /\ conversations' = conversation_create(conversations, turns[r].session_id)
    /\ Step(r, [turns[r] EXCEPT !.pc = "save_user",
                                !.conversation_id = Len(conversations')])
    /\ UNCHANGED <<tasks, task_id_seq, messages>>

\* message_repo.add of the user message
SaveUserMessage(r) ==
    /\ At(r, "save_user")
    /\ messages' = message_add(messages, turns[r].conversation_id, "user", turns[r].message)
    /\ Step(r, [turns[r] EXCEPT !.pc = "classify", !.user_message = Len(messages')])
    /\ UNCHANGED <<tasks, task_id_seq, conversations>>

\* process_message: _parse_intent_rule_based
Classify(r) ==
    /\ At(r, "classify")
    /\ Step(r, [turns[r] EXCEPT !.pc = "generate",
                                !.intent = Some(TurnProcessed[turns[r].message].result.intent)])
    /\ UNCHANGED api_vars

\* process_message: _generate_response_rule_based
GenerateRuleBased(r) ==
    /\ At(r, "generate")
    /\ mode = "rule_based"
    /\ Step(r, [turns[r] EXCEPT
                    !.pc = "handle",
                    !.generated = Some(TurnProcessed[turns[r].message].result.response)])
    /\ UNCHANGED api_vars

\* a turn that stores the generated text as its answer without handling the
\* intent
AfterAttemptUnhandled(t) ==
    [t EXCEPT !.pc = IF t.error # "" THEN "raise"
                     ELSE IF t.generated # None THEN "save_assistant" ELSE "generate",
              !.response = t.generated]

\* where a turn goes when a pass of the loop is over
AfterAttempt(t) ==
    [t EXCEPT !.pc = IF t.error # "" THEN "raise"
                     ELSE IF t.generated # None THEN "handle" ELSE "generate"]

\* process_message: _generate_response_hf_api, one request
RequestGeneration(r, outcome) ==
    /\ At(r, "generate")
    /\ mode = "huggingface_api"
    /\ Step(r, AfterAttempt(hf_attempt(turns[r],
                                       TurnProcessed[turns[r].message].result.response,
                                       outcome)))
    /\ UNCHANGED api_vars

\* the database and the turn hold what the intent handling leaves
Handles(r, h) ==
    /\ tasks' = h.tasks
    /\ task_id_seq' = h.seq
    /\ Step(r, [turns[r] EXCEPT !.pc = "save_assistant", !.handled = TRUE,
                                !.action = h.action, !.response = Some(h.response)])
    /\ UNCHANGED <<conversations, messages>>

\* the result of process_message in the turn: the parsed message with the
\* text that was generated
ResultOf(t, p) == [p.result EXCEPT !.response = t.generated[1], !.mode = mode]

HandleAs(r, p) ==
    /\ p.result.intent = "create_task" => task_id_seq < MaxTasks
    /\ Handles(r, HandleIntent(ResultOf(turns[r], p), p.confirmed))

\* the intent handling: the tool is called and the text of the answer chosen
Handle(r) == At(r, "handle") /\ HandleAs(r, TurnProcessed[turns[r].message])

\* message_repo.add of the assistant message
SaveAssistantMessage(r) ==
    /\ At(r, "save_assistant")
    /\ messages' = message_add(messages, turns[r].conversation_id, "assistant",
                               turns[r].response[1])
    /\ Step(r, [turns[r] EXCEPT !.pc = "stamp", !.assistant_message = Len(messages')])
    /\ UNCHANGED <<tasks, task_id_seq, conversations>>

\* conversation_repo.update_timestamp
UpdateTimestamp(r) ==
    /\ At(r, "stamp")
    /\ conversations' = [conversations EXCEPT ![turns[r].conversation_id].updated_at = now]
    /\ Step(r, [turns[r] EXCEPT !.pc = "return", !.stamped = TRUE])
    /\ UNCHANGED <<tasks, task_id_seq, messages>>

\* return ChatResponse(...)
Return(r) ==
    /\ At(r, "return")
    /\ Step(r, [turns[r] EXCEPT !.pc = "done", !.status = 200])
    /\ UNCHANGED api_vars

\* an except clause that stamps the conversation before it raises
RaiseStamping(r) ==
    /\ At(r, "raise")
    /\ conversations' = [conversations EXCEPT ![turns[r].conversation_id].updated_at = now]
    /\ Step(r, [turns[r] EXCEPT !.pc = "done", !.status = StatusOf(turns[r].error),
                                !.stamped = TRUE])
    /\ UNCHANGED <<tasks, task_id_seq, messages>>

\* the except clauses: raise HTTPException(...)
Raise(r) ==
    /\ At(r, "raise")
    /\ Step(r, [turns[r] EXCEPT !.pc = "done", !.status = StatusOf(turns[r].error)])
    /\ UNCHANGED api_vars

\* the service after startup: empty tables and the agent initialized, in the
\* mode initialize() left it in (it raises nothing: a failure of the test
\* request makes it try the next mode)
TurnInit ==
    /\ program = "chat"
    /\ now = 0
    /\ tasks = <<>>
    /\ task_id_seq = 0
    /\ conversations = <<>>
    /\ messages = <<>>
    /\ repo_tasks = <<>>
    /\ next_id = 1
    /\ parse_input = <<>>
    /\ parsed = None
    /\ mode \in {"rule_based", "huggingface_api"}
    /\ turns = <<>>
    /\ NoProcess(mode)

Requests == 1..MaxRequests

TurnNext ==
    \/ \E s \in SessionIds, m \in TurnMessages : Receive(s, m)
    \/ \E r \in Requests : GetBySessionId(r)
    \/ \E r \in Requests : CreateConversation(r)
    \/ \E r \in Requests : SaveUserMessage(r)
    \/ \E r \in Requests : Classify(r)
    \/ \E r \in Requests : GenerateRuleBased(r)
    \/ \E r \in Requests, outcome \in Upstream : RequestGeneration(r, outcome)
    \/ \E r \in Requests : Handle(r)
    \/ \E r \in Requests : SaveAssistantMessage(r)
    \/ \E r \in Requests : UpdateTimestamp(r)
    \/ \E r \in Requests : Return(r)
    \/ \E r \in Requests : Raise(r)

TurnSpec == TurnInit /\ [][TurnNext]_vars

\* every request sent to the inference endpoint is answered or times out
\* (httpx.Timeout) and every asyncio.sleep ends, so a turn that generates its
\* text takes the next pass of the loop
TurnFairSpec ==
    /\ TurnSpec
    /\ \A r \in Requests :
           WF_vars(GenerateRuleBased(r) \/ \E outcome \in Upstream : RequestGeneration(r, outcome))

(***************************************************************************)
(* The two repositories called directly: InMemoryTaskRepository and         *)
(* TaskRepository with add, update and delete.                              *)
(***************************************************************************)
\* ids the in-memory repository hands out in one behaviour
MaxIds == 3

\* titles of the tasks handed to the repositories
RepoTitles == {<<"a">>, <<"b">>}

\* the tasks handed to InMemoryTaskRepository.update: a task with any id
\* from 0 to one above the ids handed out
UpdateTasks ==
    {[domain_Task(title, None) EXCEPT !.id = id] : title \in RepoTitles, id \in 0..(MaxIds + 1)}

\* TaskRepository.update of a task with this id: session.add and
\* session.commit raise nothing, the row is written, or inserted when the table
\* has no row of the id
persistent_update(store, seq, id, task) ==
    [error |-> "", tasks |-> repository_update(store, id, task), seq |-> seq]

RepoRun(outcome) ==
    /\ program = "repo"
    /\ repo_tasks' = outcome.repo_tasks
    /\ next_id' = outcome.next_id
    /\ UNCHANGED <<program, now, api_vars, parser_vars, turn_vars, process_vars>>

MemoryAdd(title) ==
    /\ next_id <= MaxIds
    /\ RepoRun(memory_add(repo_tasks, next_id, domain_Task(title, None)))

MemoryUpdate(task) == RepoRun(memory_update(repo_tasks, next_id, task))

MemoryDelete(id) == RepoRun(memory_delete(repo_tasks, next_id, id))

PersistentRun(outcome) ==
    /\ program = "repo"
    /\ tasks' = outcome.tasks
    /\ task_id_seq' = outcome.seq
    /\ UNCHANGED <<program, now, conversations, messages, cli_vars, parser_vars, turn_vars, process_vars>>

PersistentAdd(title) ==
    /\ CanCreate(task_id_seq)
    /\ PersistentRun(repository_add(tasks, task_id_seq, Task(title, None)))

\* the ids are those the database has handed out: what an insert of another
\* id does to the sequence depends on the database
PersistentUpdate(id, title) ==
    /\ id \in 1..task_id_seq
    /\ PersistentRun(persistent_update(tasks, task_id_seq, id, Task(title, None)))

PersistentDelete(id) ==
    PersistentRun([tasks |-> repository_delete(tasks, id), seq |-> task_id_seq])

RepoInit ==
    /\ program = "repo"
    /\ now = 0
    /\ tasks = <<>>
    /\ task_id_seq = 0
    /\ conversations = <<>>
    /\ messages = <<>>
    /\ repo_tasks = <<>>
    /\ next_id = 1
    /\ parse_input = <<>>
    /\ parsed = None
    /\ mode = "rule_based"
    /\ turns = <<>>
    /\ NoProcess(mode)

RepoNext ==
    \/ \E title \in RepoTitles : MemoryAdd(title)
    \/ \E task \in UpdateTasks : MemoryUpdate(task)
    \/ \E id \in 0..(MaxIds + 1) : MemoryDelete(id)
    \/ \E title \in RepoTitles : PersistentAdd(title)
    \/ \E id \in TaskIds, title \in RepoTitles : PersistentUpdate(id, title)
    \/ \E id \in TaskIds : PersistentDelete(id)

RepoSpec == RepoInit /\ [][RepoNext]_vars

(***************************************************************************)
(* src/cli/main.py: the entry point of the CLI, run after run.              *)
(***************************************************************************)
\* runs of the entry point in one behaviour
MaxRuns == 2

\* the id argument of update, delete and complete: an integer, a word that
\* is no integer, or left out
IdArg(n) == [given |-> TRUE, int |-> TRUE, value |-> n]

WordId == [given |-> TRUE, int |-> FALSE, value |-> 0]

NoId == [given |-> FALSE, int |-> FALSE, value |-> 0]

Argv(command, id, title, description) ==
    [command |-> command, id |-> id, title |-> title, description |-> description]

\* the command lines main is run with
MainArguments ==
    {Argv(c, NoId, Unset, Unset) : c \in {"", "invalid", "--version", "--help", "list", "add"}}
        \cup {Argv("add", NoId, b.title, b.description) : b \in AddArguments}
        \cup {Argv("update", IdArg(n), b.title, b.description) :
                  n \in (TaskIds \cup {-1}), b \in UpdateArguments}
        \cup {Argv(c, IdArg(n), Unset, Unset) :
                  c \in {"delete", "complete"}, n \in (TaskIds \cup {-1})}
        \cup {Argv(c, i, Unset, Unset) :
                  c \in {"update", "delete", "complete"}, i \in {WordId, NoId}}

\* parser.parse_args: the exit code of the SystemExit it raises, None when it
\* returns: 0 for --version and --help, 2 for a command that is none of the
\* subcommands, a missing positional argument or an id that is no integer
parse_args(argv) ==
    IF argv.command \in {"--version", "--help"} THEN Some(0)
    ELSE IF argv.command \notin {"", "add", "list", "update", "delete", "complete"}
    THEN Some(2)
    ELSE IF argv.command = "add" /\ ~argv.title.set THEN Some(2)
    ELSE IF argv.command \in {"update", "delete", "complete"} /\ ~argv.id.int THEN Some(2)
    ELSE None

\* the handler of the command on the repository of the run; none is called
\* when parse_args exits
handle(argv) ==
    IF parse_args(argv) # None THEN Outcome("", repo_tasks, next_id)
    ELSE IF argv.command = "add" THEN cli_add(argv.title.value[1], argv.description.value)
    ELSE IF argv.command = "update"
    THEN cli_update(argv.id.value, argv.title.value, argv.description.value)
    ELSE IF argv.command = "delete" THEN cli_delete(argv.id.value)
    ELSE IF argv.command = "complete" THEN cli_complete(argv.id.value)
    ELSE Outcome("", repo_tasks, next_id)

\* a main that ends with 1 for every command line that fails
main_failing_alike(argv) ==
    IF parse_args(argv) # None THEN (IF parse_args(argv)[1] = 0 THEN 0 ELSE 1)
    ELSE IF argv.command = "" THEN 1
    ELSE IF handle(argv).error = "" THEN 0
    ELSE 1

\* main: the exit code, returned or carried by SystemExit
main(argv) ==
    IF parse_args(argv) # None THEN parse_args(argv)[1]
    ELSE IF argv.command = "" THEN 1
    ELSE IF handle(argv).error = "" THEN 0
    ELSE 1

\* a main that keeps one repository for all runs
main_repository_shared(outcome) == outcome

\* repository = InMemoryTaskRepository(): the repository is made in the run
\* and no run sees that of another
main_repository(outcome) == Outcome("", <<>>, 1)

\* one run of the entry point; repo_tasks and next_id are the repository the
\* next run works on
Main(argv) ==
    /\ program = "main"
    /\ Len(invocations) < MaxRuns
    /\ invocations' = Append(invocations, [argv |-> argv, code |-> main(argv)])
    /\ repo_tasks' = main_repository(handle(argv)).repo_tasks
    /\ next_id' = main_repository(handle(argv)).next_id
    /\ UNCHANGED <<program, now, api_vars, parser_vars, turn_vars, agent, calls>>

MainInit ==
    /\ program = "main"
    /\ now = 0
    /\ tasks = <<>>
    /\ task_id_seq = 0
    /\ conversations = <<>>
    /\ messages = <<>>
    /\ repo_tasks = <<>>
    /\ next_id = 1
    /\ parse_input = <<>>
    /\ parsed = None
    /\ mode = "rule_based"
    /\ turns = <<>>
    /\ NoProcess(mode)

MainNext == \E argv \in MainArguments : Main(argv)

MainSpec == MainInit /\ [][MainNext]_vars

(***************************************************************************)
(* QwenAIAgent: initialize and process_message, called any number of times  *)
(* and concurrently on one event loop.  A step is the code of one call from *)
(* one await of a request to the next.                                      *)
(***************************************************************************)
\* calls in one behaviour
MaxCalls == 3

\* HF_TOKEN as configured: absent, empty or a token
Tokens == {None, Some(<<>>), Some(<<"h", "f">>)}

\* the truth value Python gives an Optional[str]
Truthy(text) == text # None /\ text[1] # <<>>

\* what the test request of _test_hf_api meets: success, HTTP 503, 401, 429,
\* another error status, a network error
TestAnswers == {"ok", "503", "401", "429", "error_status", "network"}

\* what _init_local_model does: the model is loaded or an exception is raised
Loads == {"loaded", "failed"}

\* how a remote generation ends: with a text, or with an exception
Generations == {"text", "RateLimitError", "JSONDecodeError"}

\* a call as it is made; asserted tells that the assertion at the start of
\* _generate_response_hf_api was evaluated
NewCall(op) == [op |-> op, pc |-> "start", asserted |-> FALSE, error |-> "", response |-> ""]

\* what a step of a call leaves: the agent, its mode and the call
Left(a, m, c) == [agent |-> a, mode |-> m, call |-> c]

\* the code after initialize has returned: initialize was the call, or
\* process_message goes on to generate its response in the mode of the agent
after_initialize(a, m, c) ==
    IF c.op = "initialize" THEN Left(a, m, [c EXCEPT !.pc = "done"])
    ELSE IF m # "huggingface_api" THEN Left(a, m, [c EXCEPT !.pc = "done", !.response = m])
    ELSE IF a.http_client
         THEN Left(a, m, [c EXCEPT !.pc = "request", !.asserted = TRUE])
         ELSE Left(a, m, [c EXCEPT !.pc = "done", !.asserted = TRUE,
                                   !.error = "AssertionError"])

\* initialize after the HF API was not taken: the local model, then the
\* rule-based mode
init_fallback(a, m, c, load) ==
    after_initialize([a EXCEPT !.initialized = TRUE],
                     IF a.transformers_available /\ load = "loaded"
                     THEN "local" ELSE "rule_based",
                     c)

\* an initialize that takes the HF API mode whenever a token is given
initialize_trusting(a, m, c, load) ==
    IF a.initialized THEN after_initialize(a, m, c)
    ELSE IF Truthy(a.hf_token)
    THEN after_initialize([a EXCEPT !.initialized = TRUE], "huggingface_api", c)
    ELSE init_fallback(a, m, c, load)

\* initialize (for process_message: if not self._initialized) up to the test
\* request of _init_hf_api, which is sent with the client just created
initialize(a, m, c, load) ==
    IF a.initialized THEN after_initialize(a, m, c)
    ELSE IF Truthy(a.hf_token) /\ a.httpx_available
    THEN Left([a EXCEPT !.http_client = TRUE], m, [c EXCEPT !.pc = "test"])
    ELSE init_fallback(a, m, c, load)

\* _test_hf_api from the answer of the test request on: HTTP 503 is
\* tolerated, every other failure is an exception that initialize swallows
test_hf_api(a, m, c, answer, load) ==
    IF answer \in {"ok", "503"}
    THEN after_initialize([a EXCEPT !.initialized = TRUE], "huggingface_api", c)
    ELSE init_fallback(a, m, c, load)

\* _generate_response_hf_api from its first request to its end
generate_response_hf_api(c, generation) ==
    IF generation = "text" THEN [c EXCEPT !.pc = "done", !.response = "huggingface_api"]
    ELSE [c EXCEPT !.pc = "done", !.error = generation]

\* the agent holds what the step of call k leaves
Proceed(k, left) ==
    /\ program = "agent"
    /\ agent' = left.agent
    /\ mode' = left.mode
    /\ calls' = [calls EXCEPT ![k] = left.call]
    /\ UNCHANGED <<program, now, api_vars, cli_vars, parser_vars, turns, invocations>>

Calling(k, pc) == k \in DOMAIN calls /\ calls[k].pc = pc

\* initialize() or process_message(message) is called
Call(op) ==
    /\ program = "agent"
    /\ Len(calls) < MaxCalls
    /\ calls' = Append(calls, NewCall(op))
    /\ UNCHANGED <<program, now, api_vars, cli_vars, parser_vars, turn_vars, agent, invocations>>

Initialize(k, load) ==
    /\ Calling(k, "start")
    /\ Proceed(k, initialize(agent, mode, calls[k], load))

TestHfApi(k, answer, load) ==
    /\ Calling(k, "test")
    /\ Proceed(k, test_hf_api(agent, mode, calls[k], answer, load))

GenerateResponseHfApi(k, generation) ==
    /\ Calling(k, "request")
    /\ Proceed(k, Left(agent, mode, generate_response_hf_api(calls[k], generation)))

\* the agent as constructed, with any configuration
AgentInit ==
    /\ program = "agent"
    /\ now = 0
    /\ tasks = <<>>
    /\ task_id_seq = 0
    /\ conversations = <<>>
    /\ messages = <<>>
    /\ repo_tasks = <<>>
    /\ next_id = 1
    /\ parse_input = <<>>
    /\ parsed = None
    /\ mode = "rule_based"
    /\ turns = <<>>
    /\ agent \in {QwenAIAgent(token, httpx, transformers) :
                      token \in Tokens, httpx \in BOOLEAN, transformers \in BOOLEAN}
    /\ calls = <<>>
    /\ invocations = <<>>

CallIds == 1..MaxCalls

AgentNext ==
    \/ \E op \in {"initialize", "process_message"} : Call(op)
    \/ \E k \in CallIds, load \in Loads : Initialize(k, load)
    \/ \E k \in CallIds, answer \in TestAnswers, load \in Loads : TestHfApi(k, answer, load)
    \/ \E k \in CallIds, generation \in Generations : GenerateResponseHfApi(k, generation)

AgentSpec == AgentInit /\ [][AgentNext]_vars
(***************************************************************************)
(* Properties of the chat endpoint.                                         *)
(***************************************************************************)
\* the rows of the conversation of a session, oldest first
RowsOf(session_id) ==
    SelectSeq(messages, LAMBDA r : r.conversation_id \in ConversationsOf(session_id))

\* the messages the agent classifies as delete_task that contain neither
\* "yes" nor "confirm"
UnconfirmedDeletes ==
    {m \in DOMAIN Processed :
        /\ Processed[m].result.intent = "delete_task"
        /\ ~Contains(Lower(m), W.yes)
        /\ ~Contains(Lower(m), W.confirm)}

\* the messages that contain "yes" or "confirm"
Confirmations ==
    {m \in ChatMessages : Contains(Lower(m), W.yes) \/ Contains(Lower(m), W.confirm)}

C2_ConfirmationDeletes ==
    program = "api" =>
        \A s \in SessionIds, m \in Confirmations :
            LET rows == RowsOf(s)
                n == Len(rows)
            IN  (n >= 2 /\ rows[n].content = Text("are_you_sure"))
                    => Processed[rows[n - 1].content].result.data.task_id
                           \notin DOMAIN chat(s, m).tasks

StoredTasks ==
    {tasks[i] : i \in DOMAIN tasks} \cup {repo_tasks[i] : i \in DOMAIN repo_tasks}

\* completed_at is present exactly when the status is completed, and is then
\* no earlier than created_at
CompletionRecorded(t) ==
    /\ t.status \in {"pending", "completed"}
    /\ (t.completed_at # None) <=> (t.status = "completed")
    /\ t.completed_at # None => t.completed_at[1] >= t.created_at

\* a task enters a store pending, and a completed task that stays in the
\* store stays completed
CompletionKept(old, new) ==
    \A i \in DOMAIN new :
        /\ i \notin DOMAIN old => new[i].status = "pending"
        /\ (i \in DOMAIN old /\ old[i].status = "completed") => new[i].status = "completed"
        /\ (i \in DOMAIN old /\ old[i].status = "pending" /\ new[i].status = "completed")
               => new[i].completed_at = Some(now)

\* C4: in every state reached by create, update, complete and delete through
\* the REST endpoints, the chat tools and the CLI handlers, each stored task
\* has completed_at present if and only if its status is completed, and then
\* completed_at >= created_at; a task is pending from its creation until
\* complete is invoked on it and completed from then on.
C4_CompletedAtIffCompleted ==
    /\ [](\A t \in StoredTasks : CompletionRecorded(t))
    /\ [][CompletionKept(tasks, tasks') /\ CompletionKept(repo_tasks, repo_tasks')]_vars

\* a stored task was completed at a later reading of the clock than the one
\* of its creation
C4_CompletedLater ==
    \E t \in StoredTasks :
        t.status = "completed" /\ t.completed_at # None /\ t.completed_at[1] > t.created_at

\* C5: every stored task has a trimmed, non-empty title, whatever creates and
\* updates came through the REST endpoints, the chat intents and the CLI
\* handlers.
C5_TitlesTrimmedNonEmpty ==
    \A t \in StoredTasks : t.title # <<>> /\ Strip(t.title) = t.title

\* the title or the description of a request is one the claim calls invalid
InvalidFields(title, description) ==
    \/ title # None /\ (title[1] = <<>> \/ Len(title[1]) > MaxTitleLen)
    \/ description # None /\ Len(description[1]) > MaxDescriptionLen

\* C6: every create or update whose title is empty or longer than 200
\* characters, or whose description is longer than 1000 characters, is
\* rejected with a validation error and leaves the store unchanged, through
\* the REST endpoints, the chat tools and the CLI handlers.
C6_InvalidWriteRejected ==
    /\ program = "api" =>
        /\ \A b \in CreateBodies :
               InvalidFields(b.title.value, b.description.value) =>
                   LET r == rest_create_task(b.title, b.description)
                   IN  r.status = 422 /\ r.tasks = tasks
        /\ \A id \in TaskIds, b \in UpdateBodies :
               InvalidFields(b.title.value, b.description.value) =>
                   LET r == rest_update_task(id, b.title, b.description)
                   IN  r.status = 422 /\ r.tasks = tasks
        /\ \A s \in SessionIds, m \in ChatMessages :
               LET data == Processed[m].result.data
                   title == IF "title" \in DOMAIN data THEN Some(data.title)
                            ELSE IF "new_title" \in DOMAIN data THEN Some(data.new_title)
                            ELSE None
               IN  InvalidFields(title, None) => chat(s, m).tasks = tasks
    /\ program = "cli" =>
        /\ \A b \in AddArguments :
               InvalidFields(b.title.value, b.description.value) =>
                   LET r == cli_add(b.title.value[1], b.description.value)
                   IN  r.error = "ValueError" /\ r.repo_tasks = repo_tasks
        /\ \A id \in DOMAIN repo_tasks, b \in UpdateArguments :
               InvalidFields(b.title.value, b.description.value) =>
                   LET r == cli_update(id, b.title.value, b.description.value)
                   IN  r.error = "ValueError" /\ r.repo_tasks = repo_tasks

\* C7: after a delete of a task id succeeds, the next fetch of that id yields
\* not-found: None from the repository and 404 from GET /tasks/{id}, for the
\* REST endpoint, the chat tool and the CLI handler, in every state, whatever
\* was done to other ids before.
C7_DeletedIsNotFound ==
    /\ program = "api" =>
        /\ \A id \in TaskIds :
               LET r == rest_delete_task(id)
               IN  r.status = 204 =>
                       get_by_id(r.tasks, id) = None /\ GetStatus(r.tasks, id) = 404
        /\ \A s \in SessionIds, m \in ChatMessages :
               LET answer == chat(s, m)
                   id == Processed[m].result.data.task_id
               IN  answer.action = Some("task_deleted") =>
                       get_by_id(answer.tasks, id) = None /\ GetStatus(answer.tasks, id) = 404
    /\ program = "cli" =>
        \A id \in TaskIds :
            LET r == cli_delete(id)
            IN  (r.error = "" /\ id \in DOMAIN repo_tasks) =>
                    repo_get_by_id(r.repo_tasks, id) = None

\* a store has handed out an id whose task it holds no more
C7_Deleted ==
    \/ \E id \in 1..task_id_seq : id \notin DOMAIN tasks /\ DOMAIN tasks # {}
    \/ \E id \in 1..(next_id - 1) : id \notin DOMAIN repo_tasks /\ DOMAIN repo_tasks # {}

(***************************************************************************)
(* Properties of the intent parser.                                         *)
(***************************************************************************)
\* the categories in the order the specification gives them
Categories ==
    <<"create_task", "list_tasks", "summarize_tasks", "complete_task", "delete_task",
      "update_task", "help">>

AnyFound(results) == \E k \in 1..Len(results) : results[k].found

AnyIn(keywords, s) == \E k \in 1..Len(keywords) : Contains(s, keywords[k])

\* which categories have a pattern or a keyword matching s, in that order
CategoryMatches(s) ==
    <<AnyFound(CreatePatterns(s)), AnyFound(ListPatterns(s)), AnyIn(SummarizeKeywords, s),
      AnyFound(CompletePatterns(s)), AnyFound(DeletePatterns(s)),
      AnyFound(UpdatePatterns(s)), AnyIn(HelpKeywords, s)>>

MatchingCategories(s) == {k \in DOMAIN Categories : CategoryMatches(s)[k]}

\* the groups of the first pattern of a list that matches
FirstGroups(results) ==
    results[CHOOSE k \in 1..Len(results) :
                results[k].found /\ \A j \in 1..(k - 1) : ~results[j].found].groups

\* r is t in title case: every letter that follows a letter is in lower case,
\* every other letter in upper case, and nothing else differs
IsTitleCaseOf(r, t) ==
    /\ Len(r) = Len(t)
    /\ \A i \in 1..Len(t) :
           IF IsLetter(t[i])
           THEN /\ ToLower(r[i]) = ToLower(t[i])
                /\ IF i > 1 /\ IsLetter(t[i - 1]) THEN IsLower(r[i]) ELSE IsUpper(r[i])
           ELSE r[i] = t[i]

\* C8: the intent the parser returns is the first category, in the order
\* create, list, summarize, complete, delete, update, help, that has a pattern
\* or keyword matching the lower-cased trimmed message, and unknown when none
\* has; within the category the first matching pattern supplies the data.
C8_FirstCategoryWins ==
    parsed # None =>
        LET s == Strip(Lower(parse_input))
            hits == MatchingCategories(s)
            r == parsed[1]
        IN  /\ r.intent = IF hits = {} THEN "unknown"
                          ELSE Categories[CHOOSE k \in hits : \A j \in hits : k <= j]
            /\ r.intent = "create_task" =>
                   IsTitleCaseOf(r.data.title, Strip(FirstGroups(CreatePatterns(s))[1]))
            /\ r.intent = "complete_task" =>
                   r.data.task_id = ToInt(FirstGroups(CompletePatterns(s))[1])
            /\ r.intent = "delete_task" =>
                   r.data.task_id = ToInt(FirstGroups(DeletePatterns(s))[1])
            /\ r.intent = "update_task" =>
                   /\ r.data.task_id = ToInt(FirstGroups(UpdatePatterns(s))[1])
                   /\ IsTitleCaseOf(r.data.new_title,
                                    Strip(FirstGroups(UpdatePatterns(s))[2]))
            /\ r.intent = "unknown" => r.data.original_message = parse_input

\* a message that two categories match was parsed as the earlier of them,
\* which is not create
C8_TwoCategoriesMatch ==
    /\ parsed # None
    /\ \E j, k \in MatchingCategories(Strip(Lower(parse_input))) :
           j < k /\ j > 1 /\ parsed[1].intent = Categories[j]

\* C9: for every N >= 0, "Mark task N as done" is parsed as complete_task
\* with task_id N and "Delete task N" as delete_task with task_id N.
C9_IdCommands ==
    parsed # None =>
        \A n \in 0..MaxN :
            /\ parse_input = MarkMessage(n) =>
                   parsed[1] = [intent |-> "complete_task", data |-> [task_id |-> n]]
            /\ parse_input = DeleteMessage(n) =>
                   parsed[1] = [intent |-> "delete_task", data |-> [task_id |-> n]]

\* "Mark task N as done" was parsed for an N of several digits
C9_LongIdParsed ==
    /\ parsed # None
    /\ \E n \in 0..MaxN :
           /\ Len(ToDigits(n)) > 1
           /\ parse_input = MarkMessage(n)
           /\ parsed[1].data.task_id = n

\* the description of a task created by chat: the default text, followed by
\* " - " and the first date keyword of the lower-cased message when it has one
DescriptionFor(m) ==
    LET hint == Search(Strip(Lower(m)), DateAt)
    IN  IF hint.found THEN s_created_via_ai_chat \o s_dash \o hint.groups[1]
        ELSE s_created_via_ai_chat

AfterTo(t) ==
    IF Len(t) > Len(W.to) + 1 /\ Lower(SubSeq(t, 1, Len(W.to) + 1)) = W.to \o <<" ">>
    THEN SubSeq(t, Len(W.to) + 2, Len(t))
    ELSE t

Kept(store, status) ==
    IF status = None \/ status = Some("") THEN DOMAIN store
    ELSE {i \in DOMAIN store : store[i].status = status[1]}

\* xs lists each task of ids once, as it is stored, the earlier created first
ListsInCreationOrder(xs, store, ids) ==
    /\ Len(xs) = Cardinality(ids)
    /\ {xs[k].id : k \in 1..Len(xs)} = ids
    /\ \A k \in 1..Len(xs) : xs[k] = task_to_dict(store, xs[k].id)
    /\ \A j, k \in 1..Len(xs) :
           j < k => xs[j].id < xs[k].id /\ xs[j].created_at <= xs[k].created_at

C12_SummaryCounts ==
    LET r == summarize_tasks(tasks)
        N == Cardinality({i \in DOMAIN tasks : tasks[i].status = "pending"})
        M == Cardinality({i \in DOMAIN tasks : tasks[i].status = "completed"})
    IN  /\ r.summary = [total |-> N + M, pending |-> N, completed |-> M]
        /\ Len(r.pending_tasks) <= 5
        /\ Len(r.completed_tasks) <= 5
        /\ \A k \in 1..Len(r.pending_tasks) :
               /\ r.pending_tasks[k].status = "pending"
               /\ r.pending_tasks[k] = task_to_dict(tasks, r.pending_tasks[k].id)
        /\ \A k \in 1..Len(r.completed_tasks) :
               /\ r.completed_tasks[k].status = "completed"
               /\ r.completed_tasks[k] = task_to_dict(tasks, r.completed_tasks[k].id)

\* a store with more than 5 pending tasks and a completed one
C12_MoreThanFivePending ==
    /\ program = "tools"
    /\ Cardinality({i \in DOMAIN tasks : tasks[i].status = "pending"}) > 5
    /\ \E i \in DOMAIN tasks : tasks[i].status = "completed"

(***************************************************************************)
(* Claims about the chat turn.                                              *)
(***************************************************************************)
\* what a turn has done so far
UserSaved(t) == t.user_message # 0

Classified(t) == t.intent # None

Generated(t) == t.generated # None

ToolInvoked(t) == t.handled

Selected(t) == t.response # None

AssistantSaved(t) == t.assistant_message # 0

Stamped(t) == t.stamped

Returned(t) == t.status = 200

Count(b) == IF b THEN 1 ELSE 0

\* how many of the steps of a turn are done, the tool call and the choice of
\* the text counted as one
Stage(t) ==
    Count(UserSaved(t)) + Count(Classified(t)) + Count(Generated(t))
    + Count(ToolInvoked(t)) + Count(AssistantSaved(t)) + Count(Stamped(t))
    + Count(Returned(t))

\* the rows a turn has stored are in the table, with what the turn was given
\* and what it answers
RowsStored(t) ==
    /\ UserSaved(t) =>
           /\ t.user_message <= Len(messages)
           /\ messages[t.user_message].role = "user"
           /\ messages[t.user_message].content = t.message
           /\ messages[t.user_message].conversation_id = t.conversation_id
    /\ AssistantSaved(t) =>
           /\ t.assistant_message <= Len(messages)
           /\ messages[t.assistant_message].role = "assistant"
           /\ messages[t.assistant_message].content = t.response[1]
           /\ messages[t.assistant_message].conversation_id = t.conversation_id

\* C13 as stated: in each turn the user message is persisted, then the
\* intent classified, then the tool layer invoked, then the response text
\* selected or generated, then the assistant message persisted, then the
\* timestamp bumped, then the response returned, each step finishing before
\* the next starts.
C13_ToolBeforeResponseText ==
    \A r \in DOMAIN turns :
        LET t == turns[r]
        IN  /\ Returned(t) => Stamped(t)
            /\ Stamped(t) => AssistantSaved(t)
            /\ AssistantSaved(t) => Selected(t) /\ Generated(t)
            /\ Selected(t) \/ Generated(t) => ToolInvoked(t)
            /\ ToolInvoked(t) => Classified(t)
            /\ Classified(t) => UserSaved(t)

\* the order of the steps of a turn, the generation before the tool call
StepsInOrder(t) ==
    /\ Returned(t) => Stamped(t)
    /\ Stamped(t) => AssistantSaved(t)
    /\ AssistantSaved(t) => Selected(t)
    /\ Selected(t) <=> ToolInvoked(t)
    /\ ToolInvoked(t) => Generated(t)
    /\ Generated(t) => Classified(t)
    /\ Classified(t) => UserSaved(t)
    /\ RowsStored(t)

\* C13, amended: in each turn the user message is persisted, then the intent
\* classified, then the response text generated by the agent, then the tool
\* layer invoked and the final text chosen, then the assistant message
\* persisted, then the timestamp bumped, then the response returned; a step
\* of the service finishes one of these steps of one turn at most.
C13_GenerationBeforeTool ==
    /\ [](\A r \in DOMAIN turns : StepsInOrder(turns[r]))
    /\ [][\A r \in DOMAIN turns :
              /\ Stage(turns'[r]) \in {Stage(turns[r]), Stage(turns[r]) + 1}
              /\ \A q \in DOMAIN turns :
                     q # r /\ Stage(turns'[r]) # Stage(turns[r])
                         => Stage(turns'[q]) = Stage(turns[q])]_vars

\* a turn was answered after its text was generated by the remote model and
\* its tool changed the table
C13_TurnReturned ==
    \E r \in DOMAIN turns :
        /\ Returned(turns[r])
        /\ turns[r].generated = Some([variant |-> "generated", text |-> "generated"])
        /\ turns[r].action = Some("task_created")
        /\ tasks # <<>>

\* xs is ys or ys with rows added at its end
IsPrefix(ys, xs) == Len(ys) <= Len(xs) /\ SubSeq(xs, 1, Len(ys)) = ys

\* C14: messages are append-only: a turn that returns a response has added
\* exactly two rows to its conversation, the user message before the
\* assistant message, and no step changes or removes a stored row.
C14_MessagesAppendOnly ==
    /\ [](/\ Len(messages) = Len(SelectSeq(turns, UserSaved))
                             + Len(SelectSeq(turns, AssistantSaved))
          /\ \A r \in DOMAIN turns :
                 /\ RowsStored(turns[r])
                 /\ Returned(turns[r]) =>
                        /\ UserSaved(turns[r]) /\ AssistantSaved(turns[r])
                        /\ turns[r].user_message < turns[r].assistant_message
                 /\ \A q \in DOMAIN turns :
                        q # r /\ UserSaved(turns[r]) /\ AssistantSaved(turns[q])
                            => turns[r].user_message # turns[q].assistant_message
                 /\ \A q \in DOMAIN turns :
                        q # r /\ UserSaved(turns[r]) /\ UserSaved(turns[q])
                            => turns[r].user_message # turns[q].user_message)
    /\ [][IsPrefix(messages, messages') /\ Len(messages') <= Len(messages) + 1]_vars

\* two turns of one conversation are answered, the messages of the second
\* stored between those of the first
C14_InterleavedTurns ==
    \E r, q \in DOMAIN turns :
        /\ r # q
        /\ Returned(turns[r]) /\ Returned(turns[q])
        /\ turns[r].conversation_id = turns[q].conversation_id
        /\ turns[r].user_message < turns[q].user_message
        /\ turns[q].user_message < turns[r].assistant_message

\* the rows of table conversations with this session id, found by comparing
\* the ids as they are
RowsOfSession(rows, session_id) == {c \in 1..Len(rows) : rows[c].session_id = session_id}

\* C15: after any sequence of turns that do not overlap there is exactly one
\* conversation for each session id that sent a message, ids compared
\* exactly: in every state a session has one conversation at most, its first
\* turn creates one and every later turn uses that one.
C15_OneConversationPerSession ==
    /\ \A s \in SessionIds : Cardinality(RowsOfSession(conversations, s)) <= 1
    /\ \A c \in 1..Len(conversations) :
           \E k \in 1..Len(messages) : messages[k].conversation_id = c
    /\ \A s \in SessionIds, m \in ChatMessages :
           LET a == chat(s, m)
               had == RowsOfSession(conversations, s)
           IN  /\ RowsOfSession(a.conversations, s) = {a.conversation_id}
               /\ had # {} => had = {a.conversation_id}
                              /\ Len(a.conversations) = Len(conversations)
               /\ had = {} => Len(a.conversations) = Len(conversations) + 1
               /\ \A o \in SessionIds \ {s} :
                      RowsOfSession(a.conversations, o) = RowsOfSession(conversations, o)
               /\ \A k \in (Len(messages) + 1)..Len(a.messages) :
                      a.messages[k].conversation_id = a.conversation_id

\* a session has sent two messages and has its one conversation
C15_SecondTurnReuses ==
    /\ program = "api"
    /\ Len(conversations) = 1
    /\ Len(messages) = 4

\* C16: nothing guards the lookup-then-create of get_or_create: a turn whose
\* lookup found no conversation adds a row for its session whatever the table
\* holds by then, so two first turns of one session that interleave can leave
\* two conversations with that session id.
C16_CreateIsUnguarded ==
    [][\A r \in DOMAIN turns :
           turns[r].pc = "create" /\ turns'[r].pc # "create" =>
               /\ Len(conversations') = Len(conversations) + 1
               /\ conversations'[Len(conversations')].session_id = turns[r].session_id
               /\ turns'[r].conversation_id = Len(conversations')
               /\ SubSeq(conversations', 1, Len(conversations)) = conversations]_vars

\* two conversations of one session id exist
C16_TwoConversations ==
    \E c, d \in 1..Len(conversations) :
        c # d /\ conversations[c].session_id = conversations[d].session_id

\* the answers of the inference endpoint that are failures other than a rate
\* limit
OtherFailures == {"blank", "503", "error_status", "network", "malformed"}

\* the template text of a turn: what process_message answers in rule-based
\* mode
TemplateOf(t) == TurnProcessed[t.message].result.response

\* the generation of a turn is over
GenerationOver(t) == Classified(t) /\ t.pc # "generate"

\* C17: in remote mode every failure of the remote call other than a rate
\* limit (timeout, network error, other error status, malformed body, blank
\* text) makes the generator return the template text, and the turn is
\* answered with a response, not with an error.
C17_FailuresFallBack ==
    \A r \in DOMAIN turns :
        LET t == turns[r]
        IN  GenerationOver(t) /\ t.upstream \in OtherFailures =>
                /\ t.generated = Some(TemplateOf(t))
                /\ t.error = ""
                /\ t.status \in {0, 200}

\* C18: remote generation always ends: a 503 is followed by a wait of
\* 2^attempt seconds, a turn sends max_retries requests at most, and when
\* the ceiling is reached without generated text the template is returned.
C18_GenerationTerminates ==
    /\ [](\A r \in DOMAIN turns :
              LET t == turns[r]
              IN  /\ t.requests <= max_retries
                  /\ t.attempt <= t.requests
                  /\ Len(t.waits) = t.attempt
                  /\ \A k \in 1..Len(t.waits) : t.waits[k] = 2 ^ (k - 1)
                  /\ t.upstream = "503" => t.waits # <<>>
                  /\ t.attempt = max_retries =>
                         /\ GenerationOver(t)
                         /\ t.generated = Some(TemplateOf(t))
                         /\ t.error = "")
    /\ \A r \in Requests : At(r, "generate") ~> ~At(r, "generate")

\* a turn has met HTTP 503 three times, waited 1, 2 and 4 seconds and taken
\* the template
C18_CeilingReached ==
    \E r \in DOMAIN turns :
        /\ turns[r].upstream = "503"
        /\ turns[r].requests = 3
        /\ turns[r].waits = <<1, 2, 4>>
        /\ turns[r].generated = Some(TemplateOf(turns[r]))
        /\ turns[r].status = 200

\* C19: an HTTP 429 is never retried: it ends the generation with a
\* RateLimitError, a failure no other answer gives; no further request is
\* sent in the turn and no template text is returned.
C19_RateLimitNotRetried ==
    /\ [](\A r \in DOMAIN turns :
              LET t == turns[r]
              IN  /\ t.upstream = "429" =>
                         /\ t.error = "RateLimitError"
                         /\ t.pc \in {"raise", "done"}
                         /\ t.generated = None /\ t.response = None
                         /\ ~ToolInvoked(t) /\ ~AssistantSaved(t)
                  /\ t.error = "RateLimitError" => t.upstream = "429")
    /\ [][\A r \in DOMAIN turns :
              turns[r].upstream = "429" =>
                  /\ turns'[r].requests = turns[r].requests
                  /\ turns'[r].upstream = "429"]_vars

\* a turn met HTTP 429 after a retry and was answered
C19_RateLimitedAfterRetry ==
    \E r \in DOMAIN turns :
        /\ turns[r].upstream = "429"
        /\ turns[r].requests = 2
        /\ turns[r].pc = "done"

\* the upstream was unavailable to the end of the generation of a turn: the
\* last request met HTTP 503, a timeout or a network error
Unavailable(t) == GenerationOver(t) /\ t.upstream \in {"503", "network"}

\* C20 as stated: the chat endpoint answers 429 exactly when the upstream
\* reported a rate limit in the turn, 503 when the upstream is unavailable
\* and 500 on any other unhandled failure.
C20_StatusPerCause ==
    \A r \in DOMAIN turns :
        LET t == turns[r]
        IN  t.pc = "done" =>
                /\ t.status = 429 <=> t.upstream = "429"
                /\ Unavailable(t) => t.status = 503
                /\ t.error \notin {"", "RateLimitError"} /\ ~Unavailable(t) => t.status = 500

\* C20, amended: the chat endpoint answers 429 exactly when a generation
\* request of the turn met HTTP 429 and 500 exactly when another exception
\* left the turn; an upstream that is unavailable gives no 503 but the
\* template text with status 200, and no turn is answered with 503.
C20_StatusPerException ==
    \A r \in DOMAIN turns :
        LET t == turns[r]
        IN  t.pc = "done" =>
                /\ t.status = 429 <=> t.upstream = "429"
                /\ t.status = 429 <=> t.error = "RateLimitError"
                /\ t.status = 500 <=> t.error \notin {"", "RateLimitError"}
                /\ t.status = 200 <=> t.error = ""
                /\ Unavailable(t) =>
                       t.status = 200 /\ t.generated = Some(TemplateOf(t))
                /\ t.status # 503

\* a turn was answered with 429 and a turn whose upstream was unavailable
\* with 200
C20_UnavailableAnswered200 ==
    \E r, q \in DOMAIN turns :
        /\ turns[r].pc = "done" /\ turns[q].pc = "done"
        /\ turns[r].status = 429
        /\ turns[q].status = 200 /\ Unavailable(turns[q])

(***************************************************************************)
(* Claims about ids that are not in the store.                              *)
(***************************************************************************)
\* titles and descriptions the update tool is called with
ToolFields == {None, Some(<<>>), Some(<<"a">>)}

RowsOfConversation(c) == {k \in 1..Len(messages) : messages[k].conversation_id = c}

\* C22: for a session that has a conversation with n messages the history
\* endpoint answers 200 with the min(50, n) most recent messages of the
\* conversation, oldest first, and for a session that has no conversation it
\* answers 404.
C22_HistoryReturnsLatest ==
    program = "api" =>
        \A s \in SessionIds : \A r \in get_conversation_history(s) :
            IF ConversationsOf(s) = {} THEN r.status = 404
            ELSE \E c \in ConversationsOf(s) :
                     LET n == Cardinality(RowsOfConversation(c))
                     IN  /\ r.status = 200
                         /\ Len(r.messages) = Min({HistoryLimit, n})
                         /\ \A i \in DOMAIN r.messages :
                                /\ r.messages[i] \in RowsOfConversation(c)
                                /\ \A j \in DOMAIN r.messages :
                                       i < j => r.messages[i] < r.messages[j]

\* the message contains one of the Roman Urdu keywords, in any case
HasUrduWord(m) == \E w \in Range(UrduWords) : Contains(Lower(m), w)

\* C23: for every intent the template response is the Roman Urdu variant
\* exactly when the original message contains one of hai, karna, kal, aaj,
\* mera, mere, kaam, and the English variant otherwise.
C23_UrduVariantByKeyword ==
    parsed # None =>
        (generate_response_rule_based(parsed[1].intent, parsed[1].data).variant = "roman_urdu"
            <=> HasUrduWord(parse_input))

(***************************************************************************)
(* Claims about the repositories.                                           *)
(***************************************************************************)
\* C24: the in-memory repository assigns the ids 1, 2, 3, ... in the order
\* of add; after any sequence of add, update and delete the ids of the stored
\* tasks are positive and pairwise distinct, and no id is assigned twice,
\* also after the task that held it was deleted.
C24_IdsNeverReused ==
    /\ [](/\ next_id >= 1
          /\ \A id \in DOMAIN repo_tasks :
                 id >= 1 /\ id < next_id /\ repo_tasks[id].id = id
          /\ \A i, j \in DOMAIN repo_tasks :
                 i # j => repo_tasks[i].id # repo_tasks[j].id)
    /\ [][/\ next_id' \in {next_id, next_id + 1}
          /\ DOMAIN repo_tasks' \ DOMAIN repo_tasks \subseteq {next_id}
          /\ next_id' = next_id + 1 <=> next_id \in DOMAIN repo_tasks']_vars

\* the first task was deleted and a third was added after it
C24_AddedAfterDelete ==
    /\ program = "repo"
    /\ next_id = 4
    /\ DOMAIN repo_tasks = {2, 3}

\* C25: repository update of a task whose id is not in the store raises an
\* error (TaskNotFoundError in the in-memory repository) and neither adds
\* the task nor changes a stored task, in the in-memory and in the persistent
\* repository.
C25_UpdateMissingRaises ==
    program = "repo" =>
        /\ \A task \in UpdateTasks :
               task.id \notin DOMAIN repo_tasks =>
                   memory_update(repo_tasks, next_id, task) =
                       Outcome("TaskNotFoundError", repo_tasks, next_id)
        /\ \A id \in (1..task_id_seq) \ DOMAIN tasks, title \in RepoTitles :
               LET r == persistent_update(tasks, task_id_seq, id, Task(title, None))
               IN  r.error # "" /\ r.tasks = tasks

(***************************************************************************)
(* Claims about the CLI entry point.                                        *)
(***************************************************************************)
\* the command of a run is one of the subcommands with its arguments in
\* place
WellFormed(argv) ==
    /\ argv.command \in {"add", "list", "update", "delete", "complete"}
    /\ argv.command = "add" => argv.title.set
    /\ argv.command \in {"update", "delete", "complete"} => argv.id.int

Flags == {"--version", "--help"}

\* C26 as stated: the entry point ends with 0 when the command succeeds,
\* with 1 on a domain error (task not found, validation failure) and with 2
\* on a malformed invocation.
C26_ExitCodeByOutcome ==
    \A k \in DOMAIN invocations :
        LET argv == invocations[k].argv
            code == invocations[k].code
        IN  argv.command \notin Flags =>
                /\ ~WellFormed(argv) => code = 2
                /\ WellFormed(argv) => code \in {0, 1}

\* C26, amended: the entry point ends with 2 when argparse rejects the
\* command line (unknown command, missing or non-integer argument), with 1
\* when no command is given or the handler raises (task not found, ValueError
\* of an id or a field), and with 0 when the handler returns and for
\* --version and --help.
C26_ExitCodes ==
    \A k \in DOMAIN invocations :
        LET argv == invocations[k].argv
            code == invocations[k].code
        IN  /\ code \in {0, 1, 2}
            /\ argv.command \in Flags => code = 0
            /\ argv.command = "" => code = 1
            /\ argv.command \notin Flags \cup {""} /\ ~WellFormed(argv) => code = 2
            /\ WellFormed(argv) =>
                   /\ code \in {0, 1}
                   /\ argv.command = "list" => code = 0
                   /\ argv.command = "add" =>
                          (code = 0 <=> domain_Task_error(argv.title.value[1],
                                                          argv.description.value) = "")
                   /\ argv.command \in {"update", "delete", "complete"} => code = 1

\* a run with no command was followed by a run with an unknown command
C26_NoCommandThenUnknown ==
    /\ Len(invocations) = 2
    /\ invocations[1].argv.command = "" /\ invocations[1].code = 1
    /\ invocations[2].argv.command = "invalid" /\ invocations[2].code = 2

\* C27: every run of the entry point starts from an empty repository, so a
\* task added by one run is not seen by a later one: update, delete and
\* complete through main end with 1 for every id, after any runs before.
C27_RunsShareNothing ==
    program = "main" =>
        /\ repo_tasks = <<>> /\ next_id = 1
        /\ \A argv \in MainArguments :
               argv.command \in {"update", "delete", "complete"} /\ argv.id.int
                   => main(argv) = 1
        /\ \A k \in DOMAIN invocations :
               LET argv == invocations[k].argv
               IN  argv.command \in {"update", "delete", "complete"} /\ argv.id.int
                       => invocations[k].code = 1

\* a run added a task and the next run asked for the id the task was given
C27_AddThenComplete ==
    /\ Len(invocations) = 2
    /\ invocations[1].argv.command = "add" /\ invocations[1].code = 0
    /\ invocations[2].argv = Argv("complete", IdArg(1), Unset, Unset)
    /\ invocations[2].code = 1

(***************************************************************************)
(* Claims about what a chat turn leaves behind.                             *)
(***************************************************************************)
\* C28: a chat turn removes one task at most, and only the task whose id is
\* parsed from the message of that turn; a message that is not classified as
\* delete_task, such as a bare "yes", removes no task, whatever turns came
\* before it in the session.
C28_TurnRemovesNamedTask ==
    program = "api" =>
        \A s \in SessionIds, m \in DOMAIN Processed :
            LET removed == DOMAIN tasks \ DOMAIN chat(s, m).tasks
                result == Processed[m].result
            IN  /\ Cardinality(removed) <= 1
                /\ result.intent # "delete_task" => removed = {}
                /\ removed # {} => removed = {result.data.task_id}

\* a session asked to delete task 1, was asked to confirm and answered "yes",
\* and task 1 is in the table
C28_YesAfterRequest ==
    /\ program = "api"
    /\ Len(messages) = 4
    /\ messages[1].content = DeleteMessage(1)
    /\ messages[2].content = Text("are_you_sure")
    /\ messages[3].content = <<"y", "e", "s">>
    /\ messages[3].conversation_id = messages[1].conversation_id
    /\ 1 \in DOMAIN tasks


\* C29: when the generation of a chat turn fails with a rate limit, the user
\* message of the turn is already stored; the turn stores no assistant
\* message, calls no tool (it creates, changes and removes no task) and does
\* not stamp the conversation, and its steps from the failure on leave the
\* tasks, the messages and the conversations as they are.
C29_RateLimitLeavesUserMessage ==
    /\ [](\A r \in DOMAIN turns :
              LET t == turns[r]
              IN  t.upstream = "429" =>
                      /\ t.error = "RateLimitError"
                      /\ UserSaved(t) /\ RowsStored(t)
                      /\ t.conversation_id \in DOMAIN conversations
                      /\ ~AssistantSaved(t)
                      /\ ~ToolInvoked(t) /\ t.action = None
                      /\ ~Stamped(t)
                      /\ t.pc = "done" => t.status = 429)
    /\ [][\A r \in DOMAIN turns :
              turns'[r].upstream = "429" /\ turns'[r] # turns[r] =>
                  /\ tasks' = tasks /\ task_id_seq' = task_id_seq
                  /\ messages' = messages
                  /\ conversations' = conversations]_vars

\* a turn was answered 429 with its user message the last row of its
\* conversation, while another turn of the session created a task and was
\* answered 200
C29_RateLimitedBesideCreate ==
    \E r, q \in DOMAIN turns :
        /\ turns[r].status = 429
        /\ turns[q].status = 200 /\ turns[q].action = Some("task_created")
        /\ turns[q].conversation_id = turns[r].conversation_id
        /\ Len(tasks) = 1
        /\ ~\E k \in 1..Len(messages) :
               /\ k > turns[r].user_message
               /\ messages[k].conversation_id = turns[r].conversation_id

\* C30: in every state of the agent, mode is HF_API only if a token was
\* configured and the HTTP client has been created; the assertion at the
\* start of the remote generation never fails, and a call that awaits a
\* generation request has a client, after any calls of initialize and
\* process_message.
C30_RemoteModeHasClient ==
    /\ mode = "huggingface_api" => Truthy(agent.hf_token) /\ agent.http_client
    /\ \A k \in DOMAIN calls :
           /\ calls[k].error # "AssertionError"
           /\ calls[k].asserted => agent.http_client

\* a process_message passed the assertion and answered in HF API mode, and
\* an initialize that ran beside it has since left the agent in another mode
C30_AssertedThenFallback ==
    \E k \in DOMAIN calls :
        /\ calls[k].asserted
        /\ calls[k].response = "huggingface_api"
        /\ mode # "huggingface_api"
        /\ agent.initialized /\ agent.http_client
====
